---- MODULE Spec2Model ----
(***************************************************************************)
(* Workflow generation and Git publishing pipeline of Calance-Workflow.    *)
(*                                                                         *)
(* The model covers the request validation (Request.Validate,              *)
(* isValidWorkflowName, GenerateWorkflow), the HTTP handlers that drive    *)
(* it (Handler.Create, Handler.Preview), the GitHub client methods with    *)
(* their status classification (checkResponse) and the two orchestrators   *)
(* Service.CreateWorkflow and Service.UpdateWorkflow, run by several       *)
(* concurrent invocations against one GitHub repository.                   *)
(***************************************************************************)
EXTENDS Integers, Sequences, FiniteSets, TLC

(* ----------------------------- bounds ---------------------------------- *)
\* the clock (time.Now().Unix()) runs over 0..MaxClock
MaxClock == 1
\* at most MaxFaults requests are turned down by a fault of the gateway or
\* of the network (answers the repository's state does not call for)
MaxFaults == 1

\* the concurrent invocations of the orchestrators: two requests served at
\* the same time, each by its own goroutine
Procs == {1, 2}

(* ------------------------- program constants --------------------------- *)
StatusOK == 200
StatusCreated == 201
StatusBadRequest == 400
StatusUnauthorized == 401
StatusForbidden == 403
StatusNotFound == 404
StatusConflict == 409
StatusInternalServerError == 500

VARIABLES
    now,            \* time.Now().Unix()
    refs,           \* GitHub: branch -> commit at its tip
    prs,            \* GitHub: the pull requests opened, in order
    repoExists,     \* GitHub: the repository exists and the token can see it
    faults,         \* number of requests a fault has turned down so far
    op,             \* per invocation: "none", "create" or "update"
    input,          \* per invocation: the arguments of the call
    pc,             \* per invocation: the next gateway call, or "done"/"failed"
    calls,          \* per invocation: the gateway calls issued so far
    lastResp,       \* per invocation: the response of the last gateway call
    defaultBranch,  \* per invocation: local defaultBranch
    branchName,     \* per invocation: local branchName
    baseSHA,        \* per invocation: local baseSHA
    err,            \* per invocation: the error returned
    result,         \* per invocation: the *Response returned
    handler,        \* per invocation: the HTTP handler that serves it, or "none"
    request,        \* per invocation: the request body the handler was sent
    http,           \* per invocation: the HTTP response of the handler
    vreq,           \* the request a validation function is applied to
    vres,           \* the function applied to vreq and what it returned
    indentArgs,     \* the arguments the indent helper is called with
    indentOut,      \* whether indent has returned, and the text it returned
    listing,        \* GitHub: the entries of .github/workflows, or Nil without it
    files,          \* per invocation: the list GetWorkflows returned
    fileContent,    \* per invocation: the *FileContentResponse returned
    cancelled,      \* per invocation: the caller's ctx is done
    written         \* the write-file call applied to an answer, and its error

\* the state of the handlers and of the validation functions
handlerVars == <<handler, request, http, vreq, vres, indentArgs, indentOut>>

\* the state of the read operations
readVars == <<listing, files, fileContent>>

vars == <<now, refs, prs, repoExists, faults, op, input, pc, calls, lastResp,
          defaultBranch, branchName, baseSHA, err, result, handlerVars, readVars,
          cancelled, written>>

(* ------------------------------ strings -------------------------------- *)
\* strings.HasPrefix
HasPrefix(s, prefix) ==
    Len(s) >= Len(prefix) /\ SubSeq(s, 1, Len(prefix)) = prefix

\* strings.HasSuffix
HasSuffix(s, suffix) ==
    Len(s) >= Len(suffix) /\ SubSeq(s, Len(s) - Len(suffix) + 1, Len(s)) = suffix

\* strings.TrimSuffix
TrimSuffix(s, suffix) ==
    IF HasSuffix(s, suffix) THEN SubSeq(s, 1, Len(s) - Len(suffix)) ELSE s

\* parts := strings.Split(s, "/"); parts[len(parts)-1]
RECURSIVE LastSegmentFrom(_, _)
LastSegmentFrom(s, i) ==
    IF i = 0 THEN s
    ELSE IF SubSeq(s, i, i) = "/" THEN SubSeq(s, i + 1, Len(s))
    ELSE LastSegmentFrom(s, i - 1)

LastSegment(s) == LastSegmentFrom(s, Len(s))

\* strings.Split(s, "\n"), reading s from its i-th character with the line
\* cur begun
RECURSIVE SplitFrom(_, _, _)
SplitFrom(s, i, cur) ==
    IF i > Len(s) THEN << cur >>
    ELSE IF SubSeq(s, i, i) = "\n" THEN << cur >> \o SplitFrom(s, i + 1, "")
    ELSE SplitFrom(s, i + 1, cur \o SubSeq(s, i, i))

SplitLines(s) == SplitFrom(s, 1, "")

\* strings.Join(lines, "\n")
RECURSIVE JoinLines(_)
JoinLines(lines) ==
    IF Len(lines) = 0 THEN ""
    ELSE IF Len(lines) = 1 THEN lines[1]
    ELSE lines[1] \o "\n" \o JoinLines(Tail(lines))

\* strings.Repeat(" ", n)
RECURSIVE Repeat(_)
Repeat(n) == IF n <= 0 THEN "" ELSE " " \o Repeat(n - 1)

\* the indent helper prefixing every line, the empty ones too
indent_EveryLine(spaces, text) ==
    LET lines == SplitLines(text) IN
    JoinLines([i \in 1..Len(lines) |-> Repeat(spaces) \o lines[i]])

\* the template function "indent"
indent(spaces, text) ==
    LET lines == SplitLines(text) IN
    JoinLines([i \in 1..Len(lines) |->
                 IF lines[i] # "" THEN Repeat(spaces) \o lines[i] ELSE lines[i]])

(* ------------------------- GitHub repository --------------------------- *)
\* A branch name.  fmt.Sprintf("workflow/%s-%d", name, ts) is kept as the
\* triple it is built from: the prefix, the workflow name and the seconds.
Branch(kind, name, ts) == [kind |-> kind, name |-> name, ts |-> ts]

NoBranch == Branch("", "", 0)
MainBranch == Branch("", "main", 0)

\* A commit is the sequence of file writes that led to it; the empty
\* sequence is the zero value "" of a SHA string and names no commit.
NoSHA == << >>
Write(path, blob, message) == [path |-> path, blob |-> blob, message |-> message]
InitialCommit == << Write("README.md", "readme", "Initial commit") >>

WorkflowPath == ".github/workflows/deploy-1.yml"
CommitWithWorkflow == Append(InitialCommit, Write(WorkflowPath, "v0", "Add workflow"))

\* blob SHA of the file at path in commit c ("" when the file is absent)
RECURSIVE FileAt(_, _)
FileAt(c, path) ==
    IF c = << >> THEN ""
    ELSE IF c[Len(c)].path = path THEN c[Len(c)].blob
    ELSE FileAt(SubSeq(c, 1, Len(c) - 1), path)

Commits == {refs[b] : b \in DOMAIN refs}

NoRefs == [b \in {} |-> NoSHA]

(* --------------------------- HTTP responses ---------------------------- *)
EmptyBody ==
    [default_branch |-> NoBranch, sha |-> NoSHA, html_url |-> "", number |-> 0,
     files |-> << >>, content |-> "", blob_sha |-> ""]

Response(status, body) ==
    [transport |-> FALSE, status |-> status, bodyOK |-> TRUE, body |-> body]

\* httpClient.Do returned an error: no response at all
TransportFailure ==
    [transport |-> TRUE, status |-> 0, bodyOK |-> FALSE, body |-> EmptyBody]

\* a 2xx answer whose body json.Unmarshal rejects
Malformed(r) == [r EXCEPT !.bodyOK = FALSE, !.body = EmptyBody]

\* statuses with which GitHub may turn any request down
FaultStatuses == {StatusUnauthorized, StatusForbidden, StatusNotFound, StatusInternalServerError}

Faults == {TransportFailure} \cup {Response(s, EmptyBody) : s \in FaultStatuses}

Meta(r) == [transport |-> r.transport, status |-> r.status, bodyOK |-> r.bodyOK]
NoResp == [transport |-> FALSE, status |-> 0, bodyOK |-> FALSE]

PRURL(n) == "https://github.com/acme/svc/pull/" \o ToString(n)

\* GET /repos/{owner}/{repo}
GetRepo ==
    IF repoExists
    THEN {Response(StatusOK, [EmptyBody EXCEPT !.default_branch = MainBranch])}
    ELSE {Response(StatusNotFound, EmptyBody)}

\* GET /repos/{owner}/{repo}/git/refs/heads/{branch}
GetRef(branch) ==
    IF ~repoExists THEN {Response(StatusNotFound, EmptyBody)}
    ELSE IF branch \in DOMAIN refs
    THEN {Response(StatusOK, [EmptyBody EXCEPT !.sha = refs[branch]])}
    ELSE IF DOMAIN refs = {}
    THEN {Response(StatusNotFound, EmptyBody), Response(StatusConflict, EmptyBody)}
    ELSE {Response(StatusNotFound, EmptyBody)}

\* POST /repos/{owner}/{repo}/git/refs
PostRef(branch, sha) ==
    IF ~repoExists THEN {Response(StatusNotFound, EmptyBody)}
    ELSE IF branch \in DOMAIN refs \/ sha \notin Commits
    THEN {Response(422, EmptyBody)}
    ELSE {Response(StatusCreated, EmptyBody)}

\* PUT /repos/{owner}/{repo}/contents/{path}; sha = "" when the body has none
PutContents(path, branch, sha) ==
    IF ~repoExists \/ branch \notin DOMAIN refs THEN {Response(StatusNotFound, EmptyBody)}
    ELSE LET cur == FileAt(refs[branch], path) IN
         IF cur = ""
         THEN IF sha = "" THEN {Response(StatusCreated, EmptyBody)}
              ELSE {Response(StatusNotFound, EmptyBody), Response(422, EmptyBody)}
         ELSE IF sha = cur THEN {Response(StatusOK, EmptyBody)}
         ELSE IF sha = "" THEN {Response(422, EmptyBody)}
         ELSE {Response(StatusConflict, EmptyBody)}

\* POST /repos/{owner}/{repo}/pulls
PostPull(head, base) ==
    IF ~repoExists THEN {Response(StatusNotFound, EmptyBody)}
    ELSE IF \/ head \notin DOMAIN refs
            \/ base \notin DOMAIN refs
            \/ \E i \in 1..Len(prs) : prs[i].head = head /\ prs[i].base = base
    THEN {Response(422, EmptyBody)}
    ELSE IF refs[head] = refs[base] THEN {Response(422, EmptyBody)}
    ELSE {Response(StatusCreated,
                   [EmptyBody EXCEPT !.html_url = PRURL(Len(prs) + 1),
                                     !.number = Len(prs) + 1])}

\* an entry of a directory listing
Content(name, type) ==
    [Name |-> name, Path |-> ".github/workflows/" \o name, Type |-> type]

\* GET /repos/{owner}/{repo}/contents/.github/workflows
GetContentsDir ==
    IF ~repoExists \/ listing = << >>
    THEN {Response(StatusNotFound, EmptyBody)}
    ELSE {Response(StatusOK, [EmptyBody EXCEPT !.files = listing[1]])}

\* GET /repos/{owner}/{repo}/contents/{path} of a file, on the default branch
GetContentsFile(path) ==
    IF ~repoExists \/ MainBranch \notin DOMAIN refs
    THEN {Response(StatusNotFound, EmptyBody)}
    ELSE LET cur == FileAt(refs[MainBranch], path) IN
         IF cur = "" THEN {Response(StatusNotFound, EmptyBody)}
         ELSE {Response(StatusOK, [EmptyBody EXCEPT !.content = cur, !.blob_sha = cur])}

(* ------------------------------- errors -------------------------------- *)
\* An error value: the sentinel it is (errors.Is), the upstream status its
\* message carries (0 when none) and the prefixes it was wrapped in,
\* outermost first.
Error(kind, status) == [kind |-> kind, status |-> status, prefix |-> << >>]

NoErr == Error("nil", 0)
ErrUnauthorized == Error("ErrUnauthorized", 0)
ErrForbidden == Error("ErrForbidden", 0)
ErrNotFound == Error("ErrNotFound", 0)

\* fmt.Errorf("%w: %s", ErrAPIFailed, resp.GetErrorMessage())
ErrAPIFailed(status) == Error("ErrAPIFailed", status)

\* fmt.Errorf(msg + ": %w", e)
Wrap(msg, e) == [e EXCEPT !.prefix = << msg >> \o @]

(* --------------------------- GitHub client ----------------------------- *)
\* Response.IsSuccess
IsSuccess(r) == r.status >= 200 /\ r.status < 300

\* Client.doRequest: the error it returns (NoErr when it returns a response)
doRequest(r) ==
    IF r.transport
    THEN Wrap("github api request failed", Error("request failed", 0))
    ELSE NoErr

\* checkResponse
checkResponse(r) ==
    IF IsSuccess(r) THEN NoErr
    ELSE IF r.status = StatusUnauthorized THEN ErrUnauthorized
    ELSE IF r.status = StatusForbidden THEN ErrForbidden
    ELSE IF r.status = StatusNotFound THEN ErrNotFound
    ELSE ErrAPIFailed(r.status)

\* Response.UnmarshalJSON
UnmarshalJSON(r) ==
    IF r.bodyOK THEN NoErr ELSE Error("failed to unmarshal response", 0)

\* WorkflowClient.VerifyRepository
VerifyRepository(r) ==
    IF doRequest(r) # NoErr THEN doRequest(r) ELSE checkResponse(r)

\* WorkflowClient.GetDefaultBranch: <<default branch, error>>
GetDefaultBranch(r) ==
    IF doRequest(r) # NoErr THEN << NoBranch, doRequest(r) >>
    ELSE IF checkResponse(r) # NoErr THEN << NoBranch, checkResponse(r) >>
    ELSE IF UnmarshalJSON(r) # NoErr THEN << NoBranch, UnmarshalJSON(r) >>
    ELSE << r.body.default_branch, NoErr >>

\* WorkflowClient.GetBranchSHA: <<sha, error>>
GetBranchSHA(r) ==
    IF doRequest(r) # NoErr THEN << NoSHA, doRequest(r) >>
    ELSE IF checkResponse(r) # NoErr THEN << NoSHA, checkResponse(r) >>
    ELSE IF UnmarshalJSON(r) # NoErr THEN << NoSHA, UnmarshalJSON(r) >>
    ELSE << r.body.sha, NoErr >>

\* WorkflowClient.CreateBranch
CreateBranch(r) ==
    IF doRequest(r) # NoErr THEN doRequest(r)
    ELSE IF r.status # StatusCreated
    THEN Error("failed to create branch", r.status)
    ELSE NoErr

\* CreateFile without the check of the status
CreateFile_Unchecked(r) == doRequest(r)

\* WorkflowClient.CreateFile
CreateFile(r) ==
    IF doRequest(r) # NoErr THEN doRequest(r)
    ELSE IF r.status # StatusOK /\ r.status # StatusCreated THEN checkResponse(r)
    ELSE NoErr

\* WorkflowClient.UpdateFile
UpdateFile(r) ==
    IF doRequest(r) # NoErr THEN doRequest(r)
    ELSE IF r.status # StatusOK /\ r.status # StatusCreated THEN checkResponse(r)
    ELSE NoErr

\* WorkflowClient.CreatePullRequest: <<html_url, number, error>>
CreatePullRequest(r) ==
    IF doRequest(r) # NoErr THEN << "", 0, doRequest(r) >>
    ELSE IF r.status # StatusCreated
    THEN << "", 0, Error("failed to create pull request", r.status) >>
    ELSE IF UnmarshalJSON(r) # NoErr THEN << "", 0, UnmarshalJSON(r) >>
    ELSE << r.body.html_url, r.body.number, NoErr >>

(* ------------------------- the workflow request ------------------------ *)
\* a nil pointer, and a pointer to a struct
Nil == << >>
Ref(x) == << x >>

\* DeploymentTypeEC2, DeploymentTypeKubernetes
DeploymentTypeEC2 == "ec2"
DeploymentTypeKubernetes == "kubernetes"

\* the domain errors
ErrEC2CommonFieldsRequired == Error("ErrEC2CommonFieldsRequired", 0)
ErrEC2ProjectsRequired == Error("ErrEC2ProjectsRequired", 0)
ErrKubernetesCommonFieldsRequired == Error("ErrKubernetesCommonFieldsRequired", 0)
ErrKubernetesProjectsRequired == Error("ErrKubernetesProjectsRequired", 0)
ErrInvalidWorkflowName == Error("ErrInvalidWorkflowName", 0)
ErrInvalidDeploymentType == Error("ErrInvalidDeploymentType", 0)
ErrTemplateGenerationFailed == Error("ErrTemplateGenerationFailed", 0)

\* the error ShouldBindJSON returns when a binding tag is not met
ErrBinding == Error("validator.ValidationErrors", 0)

\* Request.Validate without the check of the common fields
Validate_ProjectsOnly(r) ==
    IF r.DeploymentType = DeploymentTypeEC2
    THEN IF Len(r.EC2Projects) = 0 THEN ErrEC2ProjectsRequired ELSE NoErr
    ELSE IF r.DeploymentType = DeploymentTypeKubernetes
    THEN IF Len(r.KubernetesProjects) = 0 THEN ErrKubernetesProjectsRequired ELSE NoErr
    ELSE NoErr

\* Request.Validate
Validate(r) ==
    IF r.DeploymentType = DeploymentTypeEC2
    THEN IF r.EC2CommonFields = Nil THEN ErrEC2CommonFieldsRequired
         ELSE IF Len(r.EC2Projects) = 0 THEN ErrEC2ProjectsRequired
         ELSE NoErr
    ELSE IF r.DeploymentType = DeploymentTypeKubernetes
    THEN IF r.KubernetesCommonFields = Nil THEN ErrKubernetesCommonFieldsRequired
         ELSE IF Len(r.KubernetesProjects) = 0 THEN ErrKubernetesProjectsRequired
         ELSE NoErr
    ELSE NoErr

\* the characters of the class [a-zA-Z0-9_-]
NameChars ==
    {"a", "b", "c", "d", "e", "f", "g", "h", "i", "j", "k", "l", "m",
     "n", "o", "p", "q", "r", "s", "t", "u", "v", "w", "x", "y", "z",
     "A", "B", "C", "D", "E", "F", "G", "H", "I", "J", "K", "L", "M",
     "N", "O", "P", "Q", "R", "S", "T", "U", "V", "W", "X", "Y", "Z",
     "0", "1", "2", "3", "4", "5", "6", "7", "8", "9", "_", "-"}

\* regexp.MatchString(`^[a-zA-Z0-9_-]+$`, name)
MatchString(name) ==
    /\ Len(name) >= 1
    /\ \A i \in 1..Len(name) : SubSeq(name, i, i) \in NameChars

\* the longest workflow name
MaxNameLen == 255

\* isValidWorkflowName with the length bound off by one
isValidWorkflowName_OffByOne(name) ==
    MatchString(name) /\ Len(name) > 0 /\ Len(name) < MaxNameLen

\* isValidWorkflowName
isValidWorkflowName(name) ==
    MatchString(name) /\ Len(name) > 0 /\ Len(name) <= MaxNameLen

\* the binding tags of Request: owner, repository, workflowName and
\* deploymentType are required, deploymentType is one of ec2 and kubernetes,
\* projects has at least one element
ShouldBindJSON(r) ==
    IF \/ r.Owner = "" \/ r.Repository = "" \/ r.WorkflowName = ""
       \/ r.DeploymentType \notin {DeploymentTypeEC2, DeploymentTypeKubernetes}
       \/ Len(r.Projects) < 1
    THEN ErrBinding
    ELSE NoErr

\* {{range $i, $p := .Projects}}{{if $i}}, {{end}}{{$p.Name}}{{end}}
RECURSIVE MatrixNames(_)
MatrixNames(projects) ==
    IF Len(projects) = 0 THEN ""
    ELSE IF Len(projects) = 1 THEN projects[1].Name
    ELSE projects[1].Name \o ", " \o MatrixNames(Tail(projects))

\* the width the EC2 template indents dotEnvTesting by
DotEnvIndent == 8

\* {{range .Projects}}: the dot_env_file_testing block of every project
RECURSIVE DotEnvBlocks(_)
DotEnvBlocks(projects) ==
    IF Len(projects) = 0 THEN << >>
    ELSE << "      dot_env_file_testing: |" >>
         \o SplitLines(indent(DotEnvIndent, projects[1].DotEnvTesting))
         \o DotEnvBlocks(Tail(projects))

\* the lines the template emits for one EC2 project, with the gate of
\* log_driver_options on LogDriver
EC2ProjectLines_SharedGate(e) ==
    << "      # EC2 specific configuration for " \o e.Name,
       "      command: " \o e.Command,
       "      port: " \o e.Port >>
    \o (IF e.DockerNetwork # "" THEN << "      docker_network: " \o e.DockerNetwork >> ELSE << >>)
    \o (IF e.MountPath # "" THEN << "      mount_path: " \o e.MountPath >> ELSE << >>)
    \o (IF e.EnableGPU THEN << "      enable_gpu: true" >> ELSE << >>)
    \o (IF e.LogDriver # "" THEN << "      log_driver: " \o e.LogDriver >> ELSE << >>)
    \o (IF e.LogDriver # "" THEN << "      log_driver_options: " \o e.LogDriverOptions >> ELSE << >>)

\* the lines the template emits for one EC2 project
EC2ProjectLines(e) ==
    << "      # EC2 specific configuration for " \o e.Name,
       "      command: " \o e.Command,
       "      port: " \o e.Port >>
    \o (IF e.DockerNetwork # "" THEN << "      docker_network: " \o e.DockerNetwork >> ELSE << >>)
    \o (IF e.MountPath # "" THEN << "      mount_path: " \o e.MountPath >> ELSE << >>)
    \o (IF e.EnableGPU THEN << "      enable_gpu: true" >> ELSE << >>)
    \o (IF e.LogDriver # "" THEN << "      log_driver: " \o e.LogDriver >> ELSE << >>)
    \o (IF e.LogDriverOptions # ""
        THEN << "      log_driver_options: " \o e.LogDriverOptions >> ELSE << >>)

\* {{range .EC2Projects}}: the configuration of every EC2 project
RECURSIVE EC2ProjectBlocks(_)
EC2ProjectBlocks(projects) ==
    IF Len(projects) = 0 THEN << >>
    ELSE EC2ProjectLines(projects[1]) \o EC2ProjectBlocks(Tail(projects))

\* the build job of the EC2 template, up to the end of its with: mapping
EC2BuildJob(r) ==
    LET c == r.EC2CommonFields[1] IN
    << "  build-and-push-dockerimages:",
       "    strategy:",
       "      fail-fast: false",
       "      matrix:",
       "        project: [" \o MatrixNames(r.Projects) \o "]",
       "    permissions:",
       "      contents: read",
       "      packages: write",
       "    secrets:",
       "      IMAGE_REGISTRY_PASSWORD: {{ secrets.IMAGE_REGISTRY_PASSWORD }}",
       "",
       "    uses: Calance-US/calance-workflows/.github/workflows/build.yml@" \o c.ReleaseTag,
       "    with:",
       "      image_name: " \o r.Owner \o "/" \o r.Repository \o "-{{ matrix.project }}",
       "      image_registry: {{ vars.IMAGE_REGISTRY }}",
       "      image_registry_username: {{ vars.IMAGE_REGISTRY_USERNAME }}",
       "      docker_context_path: {{ matrix.project }}",
       "      dockerfile_path: ./{{ matrix.project }}/Dockerfile" >>
    \o DotEnvBlocks(r.Projects)
    \o << "" >>

\* the deploy job of the EC2 template
EC2DeployJob(r) ==
    LET c == r.EC2CommonFields[1] IN
    << "  deploy-to-ec2:",
       "    needs: build-and-push-dockerimages",
       "    strategy:",
       "      fail-fast: false",
       "      matrix:",
       "        project: [" \o MatrixNames(r.EC2Projects) \o "]",
       "    permissions:",
       "      contents: read",
       "      packages: write",
       "",
       "    uses: Calance-US/calance-workflows/.github/workflows/deploy-ec2.yml@" \o c.ReleaseTag,
       "    with:",
       "      repository_name: {{ github.event.repository.name }}",
       "      image_name: " \o r.Owner \o "/" \o r.Repository \o "-{{ matrix.project }}",
       "      image_registry: {{ vars.IMAGE_REGISTRY }}",
       "      version: {{ needs.build-and-push-dockerimages.outputs.version }}",
       "      cluster_environment: {{ needs.build-and-push-dockerimages.outputs.cluster_environment }}",
       "      commit_id: {{ needs.build-and-push-dockerimages.outputs.commit_id }}",
       "      aws_region: " \o c.AWSRegion,
       "      jenkins_jobs: " \o c.JenkinsJobs,
       "      workflows_release: " \o c.ReleaseTag,
       "      codeowners_email_ids: " \o c.CodeownersEmails,
       "      devops_stakeholders_email_ids: " \o c.DevopsStakeholdersEmails >>
    \o EC2ProjectBlocks(r.EC2Projects)
    \o << "    secrets:",
          "      JENKINS_URL: {{ secrets.JENKINS_URL }}",
          "      JENKINS_USER: {{ secrets.JENKINS_USER }}",
          "      JENKINS_TOKEN: {{ secrets.JENKINS_TOKEN }}",
          "      SMTP_PASSWORD: {{ secrets.SMTP_PASSWORD }}",
          "      AWS_CREDENTIALS: {{ secrets.AWS_CREDENTIALS }}" >>

\* the lines of the EC2 template executed on the request
EC2Render(r) ==
    << "name: Build & Publish Image (EC2)",
       "",
       "on:",
       "  push:",
       "    tags:",
       "      - v[0-9]+.[0-9]+.[0-9]+-rc[0-9]+",
       "      - v[0-9]+.[0-9]+.[0-9]+",
       "",
       "jobs:" >>
    \o EC2BuildJob(r) \o EC2DeployJob(r)

\* EC2Generator.Generate: the template is executed on the request; the
\* evaluation of a field of a nil EC2CommonFields is an error of Execute
EC2Generate(r) ==
    IF r.EC2CommonFields = Nil
    THEN << "", Error("failed to execute template", 0) >>
    ELSE << JoinLines(EC2Render(r)) \o "\n", NoErr >>

\* KubernetesGenerator.Generate
KubernetesGenerate(r) ==
    IF r.KubernetesCommonFields = Nil
    THEN << "", Error("failed to execute template", 0) >>
    ELSE << "name: Build & Publish Image (Kubernetes)", NoErr >>

\* Service.GenerateWorkflow with a switch whose default renders the EC2 template
GenerateWorkflow_DefaultEC2(r) ==
    IF ~isValidWorkflowName(r.WorkflowName) THEN << "", ErrInvalidWorkflowName >>
    ELSE IF Validate(r) # NoErr THEN << "", Validate(r) >>
    ELSE LET out == IF r.DeploymentType = DeploymentTypeKubernetes
                    THEN KubernetesGenerate(r)
                    ELSE EC2Generate(r)
         IN IF out[2] = NoErr THEN out ELSE << "", ErrTemplateGenerationFailed >>

\* Service.GenerateWorkflow without the check of the workflow name
GenerateWorkflow_NoNameCheck(r) ==
    IF Validate(r) # NoErr THEN << "", Validate(r) >>
    ELSE IF r.DeploymentType = DeploymentTypeEC2 THEN EC2Generate(r)
    ELSE IF r.DeploymentType = DeploymentTypeKubernetes THEN KubernetesGenerate(r)
    ELSE << "", ErrInvalidDeploymentType >>

\* Service.GenerateWorkflow: the YAML and the error
GenerateWorkflow(r) ==
    IF ~isValidWorkflowName(r.WorkflowName) THEN << "", ErrInvalidWorkflowName >>
    ELSE IF Validate(r) # NoErr THEN << "", Validate(r) >>
    ELSE LET out == IF r.DeploymentType = DeploymentTypeEC2 THEN EC2Generate(r)
                    ELSE IF r.DeploymentType = DeploymentTypeKubernetes
                    THEN KubernetesGenerate(r)
                    ELSE << "", ErrInvalidDeploymentType >>
         IN IF out[2] = NoErr \/ out[2] = ErrInvalidDeploymentType
            THEN out
            ELSE << "", ErrTemplateGenerationFailed >>

(* --------------------------- the read path ----------------------------- *)
\* a []Content or []File value: nil, or a list of entries
NilFiles == [isNil |-> TRUE, items |-> << >>]
Files(items) == [isNil |-> FALSE, items |-> items]

\* the filter of GetWorkflowFiles without the test of the entry's type
IsWorkflowFile_AnyType(file) ==
    HasSuffix(file.Name, ".yml") \/ HasSuffix(file.Name, ".yaml")

\* the test GetWorkflowFiles makes of each entry
IsWorkflowFile(file) ==
    file.Type = "file" /\ (HasSuffix(file.Name, ".yml") \/ HasSuffix(file.Name, ".yaml"))

\* the 404 branch of GetWorkflowFiles left to checkResponse
NotFoundMeansEmpty_Off(r) == FALSE

\* resp.StatusCode == http.StatusNotFound: the directory does not exist
NotFoundMeansEmpty(r) == r.status = StatusNotFound

\* WorkflowClient.GetWorkflowFiles: <<files, error>>
GetWorkflowFiles(r) ==
    IF doRequest(r) # NoErr THEN << NilFiles, doRequest(r) >>
    ELSE IF NotFoundMeansEmpty(r) THEN << Files(<< >>), NoErr >>
    ELSE IF checkResponse(r) # NoErr THEN << NilFiles, checkResponse(r) >>
    ELSE IF UnmarshalJSON(r) # NoErr THEN << NilFiles, UnmarshalJSON(r) >>
    ELSE << Files(SelectSeq(r.body.files, IsWorkflowFile)), NoErr >>

\* Service.GetWorkflows on what the client returned: <<files, error>>
GetWorkflows_Result(r) ==
    IF GetWorkflowFiles(r)[2] # NoErr THEN << NilFiles, GetWorkflowFiles(r)[2] >>
    ELSE LET contents == GetWorkflowFiles(r)[1].items IN
         << Files([i \in 1..Len(contents) |->
                     [Name |-> contents[i].Name, Path |-> contents[i].Path]]), NoErr >>

\* the legacy sentinel wrapped by WorkflowService
ErrGitHubAPIFailed(status) == Error("ErrGitHubAPIFailed", status)

\* the legacy WorkflowService.GetWorkflows: <<files, error>>
LegacyGetWorkflows_Result(r) ==
    IF r.transport THEN << NilFiles, ErrGitHubAPIFailed(0) >>
    ELSE IF r.status = StatusNotFound THEN << Files(<< >>), NoErr >>
    ELSE IF r.status # StatusOK THEN << NilFiles, ErrGitHubAPIFailed(r.status) >>
    ELSE IF ~r.bodyOK THEN << NilFiles, Error("json.Unmarshal", 0) >>
    ELSE LET workflows == SelectSeq(r.body.files, IsWorkflowFile) IN
         << Files([i \in 1..Len(workflows) |->
                     [Name |-> workflows[i].Name, Path |-> workflows[i].Path]]), NoErr >>

\* WorkflowClient.GetFileContent: <<content, sha, error>>
GetFileContent(r) ==
    IF doRequest(r) # NoErr THEN << "", "", doRequest(r) >>
    ELSE IF checkResponse(r) # NoErr THEN << "", "", checkResponse(r) >>
    ELSE IF UnmarshalJSON(r) # NoErr THEN << "", "", UnmarshalJSON(r) >>
    ELSE << r.body.content, r.body.blob_sha, NoErr >>

\* the *FileContentResponse of GetWorkflowContent
FileContentResponse(name, path, sha, content) ==
    [Name |-> name, Path |-> path, SHA |-> sha, Content |-> content]

NoFileContent == FileContentResponse("", "", "", "")

(* ---------------------------- invocations ------------------------------ *)
NoInput ==
    [token |-> "", owner |-> "", repository |-> "", workflowName |-> "",
     content |-> "", filePath |-> "", sha |-> "", commitMessage |-> ""]

NoResult ==
    [Owner |-> "", Repository |-> "", WorkflowName |-> "", FilePath |-> "",
     FileURL |-> "", Message |-> ""]

\* the gateway may answer a request with a fault, or serve it
Answers(served) == IF faults < MaxFaults THEN Faults \cup served ELSE served

\* the same for a request whose answer the client parses
AnswersJSON(served) ==
    IF faults < MaxFaults
    THEN Faults \cup served \cup {Malformed(r) : r \in {x \in served : IsSuccess(x)}}
    ELSE served

\* the request was served and took effect on the repository
Served(r, served) ==
    \E x \in served : IsSuccess(x) /\ Meta(x) = Meta([r EXCEPT !.bodyOK = TRUE])

\* a gateway call that is sent whatever the state of ctx
Issue_IgnoringContext(p, call, r, served) ==
    /\ calls' = [calls EXCEPT ![p] = Append(@, call)]
    /\ lastResp' = [lastResp EXCEPT ![p] = Meta(r)]
    /\ faults' = IF r \in served THEN faults ELSE faults + 1

\* a gateway call is issued and answered; http.NewRequestWithContext(ctx, ...)
\* binds it to ctx, and the transport sends nothing once ctx is done
Issue(p, call, r, served) ==
    /\ ~cancelled[p]
    /\ calls' = [calls EXCEPT ![p] = Append(@, call)]
    /\ lastResp' = [lastResp EXCEPT ![p] = Meta(r)]
    /\ faults' = IF r \in served THEN faults ELSE faults + 1

\* return nil, e
ReturnError(p, e) ==
    /\ pc' = [pc EXCEPT ![p] = "failed"]
    /\ err' = [err EXCEPT ![p] = e]
    /\ UNCHANGED result

\* go on with the next step
Continue(p, next) ==
    /\ pc' = [pc EXCEPT ![p] = next]
    /\ UNCHANGED <<err, result>>

\* return &Response{...}, nil
ReturnResponse(p, res) ==
    /\ pc' = [pc EXCEPT ![p] = "done"]
    /\ result' = [result EXCEPT ![p] = res]
    /\ UNCHANGED err

\* the branch named after the workflow alone
CreateBranchName_NoPrefix(workflowName) == Branch("", workflowName, now)

\* fmt.Sprintf("workflow/%s-%d", workflowName, time.Now().Unix())
CreateBranchName(workflowName) == Branch("workflow", workflowName, now)

\* fmt.Sprintf("update-workflow/%s-%d", workflowName, time.Now().Unix())
UpdateBranchName(workflowName) == Branch("update-workflow", workflowName, now)

\* the path of the file with the other YAML extension
CreateFilePath_Yaml(workflowName) == ".github/workflows/" \o workflowName \o ".yaml"

\* fmt.Sprintf(".github/workflows/%s.yml", workflowName)
CreateFilePath(workflowName) == ".github/workflows/" \o workflowName \o ".yml"

\* the workflow name UpdateWorkflow extracts from the file path
UpdateWorkflowName(filePath) ==
    TrimSuffix(TrimSuffix(LastSegment(filePath), ".yml"), ".yaml")

\* the commit message of UpdateWorkflow
UpdateMessage(req) ==
    IF req.commitMessage = ""
    THEN "Update workflow: " \o UpdateWorkflowName(req.filePath)
    ELSE req.commitMessage

\* fmt.Errorf(msg + ": %w", e) on the error path of a step
WrapStep(msg, e) == IF e = NoErr THEN NoErr ELSE Wrap(msg, e)

\* the error CreateWorkflow ("create") or UpdateWorkflow ("update") returns
\* when the client call of a step was answered with r; NoErr when it goes on
StepError(o, step, r) ==
    CASE step = "verify" -> VerifyRepository(r)
      [] step = "defaultBranch" ->
           WrapStep("failed to get default branch", GetDefaultBranch(r)[2])
      [] step = "branchSHA" ->
           WrapStep("failed to get base branch SHA", GetBranchSHA(r)[2])
      [] step = "createBranch" -> WrapStep("failed to create branch", CreateBranch(r))
      [] step = "writeFile" ->
           IF o = "create" THEN CreateFile(r)
           ELSE WrapStep("failed to update file", UpdateFile(r))
      [] step = "createPR" ->
           WrapStep("failed to create pull request", CreatePullRequest(r)[3])

(* ----------------------- Service.CreateWorkflow ------------------------ *)
CreateWorkflow_VerifyRepository(p) ==
    /\ op[p] = "create" /\ pc[p] = "verify"
    /\ \E r \in Answers(GetRepo) :
         /\ Issue(p, "verify", r, GetRepo)
         /\ IF VerifyRepository(r) # NoErr
            THEN ReturnError(p, StepError(op[p], "verify", r))
            ELSE Continue(p, "defaultBranch")
    /\ UNCHANGED <<handlerVars, readVars, cancelled, now, refs, prs, repoExists, op, input, defaultBranch, branchName, baseSHA, written>>

CreateWorkflow_GetDefaultBranch(p) ==
    /\ op[p] = "create" /\ pc[p] = "defaultBranch"
    /\ \E r \in AnswersJSON(GetRepo) :
         LET out == GetDefaultBranch(r) IN
         /\ Issue(p, "defaultBranch", r, GetRepo)
         /\ IF out[2] # NoErr
            THEN /\ ReturnError(p, StepError(op[p], "defaultBranch", r))
                 /\ UNCHANGED <<defaultBranch, branchName>>
            ELSE /\ Continue(p, "branchSHA")
                 /\ defaultBranch' = [defaultBranch EXCEPT ![p] = out[1]]
                 /\ branchName' = [branchName EXCEPT ![p] = CreateBranchName(input[p].workflowName)]
    /\ UNCHANGED <<handlerVars, readVars, cancelled, now, refs, prs, repoExists, op, input, baseSHA, written>>

CreateWorkflow_GetBranchSHA(p) ==
    /\ op[p] = "create" /\ pc[p] = "branchSHA"
    /\ \E r \in AnswersJSON(GetRef(defaultBranch[p])) :
         LET out == GetBranchSHA(r) IN
         /\ Issue(p, "branchSHA", r, GetRef(defaultBranch[p]))
         /\ IF out[2] # NoErr
            THEN /\ ReturnError(p, StepError(op[p], "branchSHA", r))
                 /\ UNCHANGED baseSHA
            ELSE /\ Continue(p, "createBranch")
                 /\ baseSHA' = [baseSHA EXCEPT ![p] = out[1]]
    /\ UNCHANGED <<handlerVars, readVars, cancelled, now, refs, prs, repoExists, op, input, defaultBranch, branchName, written>>

\* the create-branch step with a retry: a failed call is issued again
CreateWorkflow_CreateBranch_Retry(p) ==
    /\ op[p] = "create" /\ pc[p] = "createBranch"
    /\ LET served == PostRef(branchName[p], baseSHA[p]) IN
       \E r \in Answers(served) :
         /\ Issue(p, "createBranch", r, served)
         /\ refs' = IF Served(r, served)
                    THEN [b \in DOMAIN refs \cup {branchName[p]} |->
                            IF b = branchName[p] THEN baseSHA[p] ELSE refs[b]]
                    ELSE refs
         /\ IF CreateBranch(r) # NoErr
            THEN UNCHANGED <<pc, err, result>>
            ELSE Continue(p, "writeFile")
    /\ UNCHANGED <<handlerVars, readVars, cancelled, now, prs, repoExists, op, input, defaultBranch, branchName, baseSHA, written>>

CreateWorkflow_CreateBranch(p) ==
    /\ op[p] = "create" /\ pc[p] = "createBranch"
    /\ LET served == PostRef(branchName[p], baseSHA[p]) IN
       \E r \in Answers(served) :
         /\ Issue(p, "createBranch", r, served)
         /\ refs' = IF Served(r, served)
                    THEN [b \in DOMAIN refs \cup {branchName[p]} |->
                            IF b = branchName[p] THEN baseSHA[p] ELSE refs[b]]
                    ELSE refs
         /\ IF CreateBranch(r) # NoErr
            THEN ReturnError(p, StepError(op[p], "createBranch", r))
            ELSE Continue(p, "writeFile")
    /\ UNCHANGED <<handlerVars, readVars, cancelled, now, prs, repoExists, op, input, defaultBranch, branchName, baseSHA, written>>

CreateWorkflow_CreateFile(p) ==
    /\ op[p] = "create" /\ pc[p] = "writeFile"
    /\ LET filePath == CreateFilePath(input[p].workflowName)
           message == "Add workflow: " \o input[p].workflowName
           served == PutContents(filePath, branchName[p], "") IN
       \E r \in Answers(served) :
         /\ Issue(p, "writeFile", r, served)
         /\ refs' = IF Served(r, served)
                    THEN [refs EXCEPT ![branchName[p]] =
                            Append(@, Write(filePath, input[p].content, message))]
                    ELSE refs
         /\ IF CreateFile(r) # NoErr
            THEN ReturnError(p, StepError(op[p], "writeFile", r))
            ELSE Continue(p, "createPR")
    /\ UNCHANGED <<handlerVars, readVars, cancelled, now, prs, repoExists, op, input, defaultBranch, branchName, baseSHA, written>>

\* the last step with a rollback: when the pull request fails the branch of
\* the invocation is deleted again
CreateWorkflow_CreatePullRequest_Rollback(p) ==
    /\ op[p] = "create" /\ pc[p] = "createPR"
    /\ LET workflowName == input[p].workflowName
           prTitle == "Add workflow: " \o workflowName
           served == PostPull(branchName[p], defaultBranch[p]) IN
       \E r \in AnswersJSON(served) :
         LET out == CreatePullRequest(r) IN
         /\ ~cancelled[p]
         /\ lastResp' = [lastResp EXCEPT ![p] = Meta(r)]
         /\ faults' = IF r \in served THEN faults ELSE faults + 1
         /\ prs' = IF Served(r, served)
                   THEN Append(prs, [head |-> branchName[p], base |-> defaultBranch[p],
                                     number |-> Len(prs) + 1, title |-> prTitle])
                   ELSE prs
         /\ IF out[3] # NoErr
            THEN /\ ReturnError(p, StepError(op[p], "createPR", r))
                 /\ calls' = [calls EXCEPT ![p] = @ \o << "createPR", "deleteBranch" >>]
                 /\ refs' = [b \in DOMAIN refs \ {branchName[p]} |-> refs[b]]
            ELSE /\ calls' = [calls EXCEPT ![p] = Append(@, "createPR")]
                 /\ refs' = refs
                 /\ ReturnResponse(p,
                      [Owner |-> input[p].owner,
                       Repository |-> input[p].repository,
                       WorkflowName |-> workflowName,
                       FilePath |-> CreateFilePath(workflowName),
                       FileURL |-> out[1],
                       Message |-> "Pull request #" \o ToString(out[2])
                                   \o " created for workflow '" \o workflowName \o "'"])
    /\ UNCHANGED <<handlerVars, readVars, cancelled, now, repoExists, op, input, defaultBranch, branchName, baseSHA, written>>

CreateWorkflow_CreatePullRequest(p) ==
    /\ op[p] = "create" /\ pc[p] = "createPR"
    /\ LET workflowName == input[p].workflowName
           prTitle == "Add workflow: " \o workflowName
           served == PostPull(branchName[p], defaultBranch[p]) IN
       \E r \in AnswersJSON(served) :
         LET out == CreatePullRequest(r) IN
         /\ Issue(p, "createPR", r, served)
         /\ prs' = IF Served(r, served)
                   THEN Append(prs, [head |-> branchName[p], base |-> defaultBranch[p],
                                     number |-> Len(prs) + 1, title |-> prTitle])
                   ELSE prs
         /\ IF out[3] # NoErr
            THEN ReturnError(p, StepError(op[p], "createPR", r))
            ELSE ReturnResponse(p,
                   [Owner |-> input[p].owner,
                    Repository |-> input[p].repository,
                    WorkflowName |-> workflowName,
                    FilePath |-> CreateFilePath(workflowName),
                    FileURL |-> out[1],
                    Message |-> "Pull request #" \o ToString(out[2])
                                \o " created for workflow '" \o workflowName \o "'"])
    /\ UNCHANGED <<handlerVars, readVars, cancelled, now, refs, repoExists, op, input, defaultBranch, branchName, baseSHA, written>>

CreateWorkflow(p) ==
    \/ CreateWorkflow_VerifyRepository(p)
    \/ CreateWorkflow_GetDefaultBranch(p)
    \/ CreateWorkflow_GetBranchSHA(p)
    \/ CreateWorkflow_CreateBranch(p)
    \/ CreateWorkflow_CreateFile(p)
    \/ CreateWorkflow_CreatePullRequest(p)

(* ----------------------- Service.UpdateWorkflow ------------------------ *)
\* the two checks UpdateWorkflow makes of req.FilePath
UpdatePathError(filePath) ==
    IF ~HasPrefix(filePath, ".github/workflows/")
    THEN Error("invalid workflow file path: must be in .github/workflows/", 0)
    ELSE IF ~HasSuffix(filePath, ".yml") /\ ~HasSuffix(filePath, ".yaml")
    THEN Error("invalid workflow file: must be a .yml or .yaml file", 0)
    ELSE NoErr

UpdateWorkflow_VerifyRepository(p) ==
    /\ op[p] = "update" /\ pc[p] = "verify"
    /\ \E r \in Answers(GetRepo) :
         /\ Issue(p, "verify", r, GetRepo)
         /\ IF VerifyRepository(r) # NoErr
            THEN ReturnError(p, StepError(op[p], "verify", r))
            ELSE Continue(p, "defaultBranch")
    /\ UNCHANGED <<handlerVars, readVars, cancelled, now, refs, prs, repoExists, op, input, defaultBranch, branchName, baseSHA, written>>

UpdateWorkflow_GetDefaultBranch(p) ==
    /\ op[p] = "update" /\ pc[p] = "defaultBranch"
    /\ \E r \in AnswersJSON(GetRepo) :
         LET out == GetDefaultBranch(r) IN
         /\ Issue(p, "defaultBranch", r, GetRepo)
         /\ IF out[2] # NoErr
            THEN /\ ReturnError(p, StepError(op[p], "defaultBranch", r))
                 /\ UNCHANGED <<defaultBranch, branchName>>
            ELSE /\ Continue(p, "branchSHA")
                 /\ defaultBranch' = [defaultBranch EXCEPT ![p] = out[1]]
                 /\ branchName' = [branchName EXCEPT ![p] =
                        UpdateBranchName(UpdateWorkflowName(input[p].filePath))]
    /\ UNCHANGED <<handlerVars, readVars, cancelled, now, refs, prs, repoExists, op, input, baseSHA, written>>

UpdateWorkflow_GetBranchSHA(p) ==
    /\ op[p] = "update" /\ pc[p] = "branchSHA"
    /\ \E r \in AnswersJSON(GetRef(defaultBranch[p])) :
         LET out == GetBranchSHA(r) IN
         /\ Issue(p, "branchSHA", r, GetRef(defaultBranch[p]))
         /\ IF out[2] # NoErr
            THEN /\ ReturnError(p, StepError(op[p], "branchSHA", r))
                 /\ UNCHANGED baseSHA
            ELSE /\ Continue(p, "createBranch")
                 /\ baseSHA' = [baseSHA EXCEPT ![p] = out[1]]
    /\ UNCHANGED <<handlerVars, readVars, cancelled, now, refs, prs, repoExists, op, input, defaultBranch, branchName, written>>

UpdateWorkflow_CreateBranch(p) ==
    /\ op[p] = "update" /\ pc[p] = "createBranch"
    /\ LET served == PostRef(branchName[p], baseSHA[p]) IN
       \E r \in Answers(served) :
         /\ Issue(p, "createBranch", r, served)
         /\ refs' = IF Served(r, served)
                    THEN [b \in DOMAIN refs \cup {branchName[p]} |->
                            IF b = branchName[p] THEN baseSHA[p] ELSE refs[b]]
                    ELSE refs
         /\ IF CreateBranch(r) # NoErr
            THEN ReturnError(p, StepError(op[p], "createBranch", r))
            ELSE Continue(p, "writeFile")
    /\ UNCHANGED <<handlerVars, readVars, cancelled, now, prs, repoExists, op, input, defaultBranch, branchName, baseSHA, written>>

\* the sha of the file as it is on the new branch, read again before the write
UpdateFileSHA_Refetched(p) == FileAt(refs[branchName[p]], input[p].filePath)

\* the sha UpdateWorkflow hands to UpdateFile, which puts it in the body
UpdateFileSHA(p) == input[p].sha

UpdateWorkflow_UpdateFile(p) ==
    /\ op[p] = "update" /\ pc[p] = "writeFile"
    /\ LET req == input[p]
           served == PutContents(req.filePath, branchName[p], UpdateFileSHA(p)) IN
       \E r \in Answers(served) :
         /\ Issue(p, "writeFile", r, served)
         /\ refs' = IF Served(r, served)
                    THEN [refs EXCEPT ![branchName[p]] =
                            Append(@, Write(req.filePath, req.content, UpdateMessage(req)))]
                    ELSE refs
         /\ IF UpdateFile(r) # NoErr
            THEN ReturnError(p, StepError(op[p], "writeFile", r))
            ELSE Continue(p, "createPR")
    /\ UNCHANGED <<handlerVars, readVars, cancelled, now, prs, repoExists, op, input, defaultBranch, branchName, baseSHA, written>>

UpdateWorkflow_CreatePullRequest(p) ==
    /\ op[p] = "update" /\ pc[p] = "createPR"
    /\ LET workflowName == UpdateWorkflowName(input[p].filePath)
           prTitle == "Update workflow: " \o workflowName
           served == PostPull(branchName[p], defaultBranch[p]) IN
       \E r \in AnswersJSON(served) :
         LET out == CreatePullRequest(r) IN
         /\ Issue(p, "createPR", r, served)
         /\ prs' = IF Served(r, served)
                   THEN Append(prs, [head |-> branchName[p], base |-> defaultBranch[p],
                                     number |-> Len(prs) + 1, title |-> prTitle])
                   ELSE prs
         /\ IF out[3] # NoErr
            THEN ReturnError(p, StepError(op[p], "createPR", r))
            ELSE ReturnResponse(p,
                   [Owner |-> input[p].owner,
                    Repository |-> input[p].repository,
                    WorkflowName |-> workflowName,
                    FilePath |-> input[p].filePath,
                    FileURL |-> out[1],
                    Message |-> "Pull request #" \o ToString(out[2])
                                \o " created for workflow '" \o workflowName \o "' update"])
    /\ UNCHANGED <<handlerVars, readVars, cancelled, now, refs, repoExists, op, input, defaultBranch, branchName, baseSHA, written>>

UpdateWorkflow(p) ==
    \/ UpdateWorkflow_VerifyRepository(p)
    \/ UpdateWorkflow_GetDefaultBranch(p)
    \/ UpdateWorkflow_GetBranchSHA(p)
    \/ UpdateWorkflow_CreateBranch(p)
    \/ UpdateWorkflow_UpdateFile(p)
    \/ UpdateWorkflow_CreatePullRequest(p)

(* ------------------------------ the calls ------------------------------ *)
WorkflowNames == {"deploy-1"}
Contents == {"yaml-a"}
TraversalPath == ".github/workflows/../../x.yml"
UpdatePaths ==
    {WorkflowPath, "docs/deploy-1.yml", ".github/workflows/deploy-1.txt", TraversalPath}
UpdateSHAs == {"v0", "stale", ""}
CommitMessages == {""}

\* a caller invokes Service.CreateWorkflow(ctx, token, owner, repo, workflowName, content)
CallCreateWorkflow(p) ==
    /\ op[p] = "none"
    /\ \E name \in WorkflowNames, content \in Contents :
         input' = [input EXCEPT ![p] =
                     [NoInput EXCEPT !.token = "gho_1", !.owner = "acme", !.repository = "svc",
                                     !.workflowName = name, !.content = content]]
    /\ op' = [op EXCEPT ![p] = "create"]
    /\ pc' = [pc EXCEPT ![p] = "verify"]
    /\ UNCHANGED <<handlerVars, readVars, cancelled, now, refs, prs, repoExists, faults, calls, lastResp,
                   defaultBranch, branchName, baseSHA, err, result, written>>

\* a caller invokes Service.UpdateWorkflow(ctx, token, req); the path is
\* checked before the first gateway call
CallUpdateWorkflow(p) ==
    /\ op[p] = "none"
    /\ \E path \in UpdatePaths, sha \in UpdateSHAs,
          content \in Contents, message \in CommitMessages :
         /\ input' = [input EXCEPT ![p] =
                        [NoInput EXCEPT !.token = "gho_1", !.owner = "acme", !.repository = "svc",
                                        !.filePath = path, !.sha = sha,
                                        !.content = content, !.commitMessage = message]]
         /\ IF UpdatePathError(path) # NoErr
            THEN ReturnError(p, UpdatePathError(path))
            ELSE Continue(p, "verify")
    /\ op' = [op EXCEPT ![p] = "update"]
    /\ UNCHANGED <<handlerVars, readVars, cancelled, now, refs, prs, repoExists, faults, calls, lastResp,
                   defaultBranch, branchName, baseSHA, written>>

(* ------------------------ the write-file call ------------------------- *)
\* the statuses an HTTP answer may carry
Statuses == (200..208) \cup {226} \cup (300..308) \cup (400..431) \cup (500..511)

NoWrite == [fn |-> "none", status |-> 0, err |-> NoErr, next |-> ""]

\* the step of the orchestrator after its write-file call returned e
AfterWriteFile(e) == IF e # NoErr THEN "failed" ELSE "createPR"

\* WorkflowClient.CreateFile gets an answer of any status, inside CreateWorkflow
ApplyCreateFile ==
    /\ written.fn = "none"
    /\ \E status \in Statuses :
         LET r == Response(status, EmptyBody) IN
         written' = [fn |-> "CreateFile", status |-> status,
                     err |-> StepError("create", "writeFile", r),
                     next |-> AfterWriteFile(CreateFile(r))]
    /\ UNCHANGED <<handlerVars, readVars, cancelled, now, refs, prs, repoExists, faults,
                   op, input, pc, calls, lastResp, defaultBranch, branchName, baseSHA,
                   err, result>>

\* WorkflowClient.UpdateFile gets an answer of any status, inside UpdateWorkflow
ApplyUpdateFile ==
    /\ written.fn = "none"
    /\ \E status \in Statuses :
         LET r == Response(status, EmptyBody) IN
         written' = [fn |-> "UpdateFile", status |-> status,
                     err |-> StepError("update", "writeFile", r),
                     next |-> AfterWriteFile(UpdateFile(r))]
    /\ UNCHANGED <<handlerVars, readVars, cancelled, now, refs, prs, repoExists, faults,
                   op, input, pc, calls, lastResp, defaultBranch, branchName, baseSHA,
                   err, result>>

(* ------------------- the context of an invocation --------------------- *)
\* the steps of a publish, as values of pc
Steps == {"verify", "defaultBranch", "branchSHA", "createBranch", "writeFile", "createPR"}

\* the caller cancels ctx while the invocation runs: between two calls, or
\* while a call waits for its answer
Cancel(p) ==
    /\ op[p] \in {"create", "update"}
    /\ pc[p] \in Steps \cup {"blocked"}
    /\ ~cancelled[p]
    /\ cancelled' = [cancelled EXCEPT ![p] = TRUE]
    /\ UNCHANGED <<handlerVars, readVars, now, refs, prs, repoExists, faults, op, input,
                   pc, calls, lastResp, defaultBranch, branchName, baseSHA, err, result, written>>

\* the call of the next step is sent and GitHub never answers it:
\* httpClient.Do blocks, for http.Client{} has no Timeout
Hang(p) ==
    /\ op[p] \in {"create", "update"}
    /\ pc[p] \in Steps
    /\ ~cancelled[p]
    /\ calls' = [calls EXCEPT ![p] = Append(@, pc[p])]
    /\ pc' = [pc EXCEPT ![p] = "blocked"]
    /\ UNCHANGED <<handlerVars, readVars, cancelled, now, refs, prs, repoExists, faults,
                   op, input, lastResp, defaultBranch, branchName, baseSHA, err, result, written>>

\* ctx is done when the next call is made: httpClient.Do returns ctx.Err()
\* without sending, and the step fails
CancelledCall(p) ==
    /\ op[p] \in {"create", "update"}
    /\ pc[p] \in Steps
    /\ cancelled[p]
    /\ ReturnError(p, StepError(op[p], pc[p], TransportFailure))
    /\ UNCHANGED <<handlerVars, readVars, cancelled, now, refs, prs, repoExists, faults,
                   op, input, calls, lastResp, defaultBranch, branchName, baseSHA, written>>

\* ctx is done while a call waits for its answer: httpClient.Do returns
\* ctx.Err(), and the step fails
AbortInFlight(p) ==
    /\ op[p] \in {"create", "update"}
    /\ pc[p] = "blocked"
    /\ cancelled[p]
    /\ lastResp' = [lastResp EXCEPT ![p] = Meta(TransportFailure)]
    /\ ReturnError(p, StepError(op[p], calls[p][Len(calls[p])], TransportFailure))
    /\ UNCHANGED <<handlerVars, readVars, cancelled, now, refs, prs, repoExists, faults,
                   op, input, calls, defaultBranch, branchName, baseSHA, written>>

(* ------------------------- the read operations ------------------------- *)
\* GetWorkflowContent with the check of the directory alone
ContentPathError_PrefixOnly(filePath) ==
    IF ~HasPrefix(filePath, ".github/workflows/")
    THEN Error("invalid workflow file path: must be in .github/workflows/", 0)
    ELSE NoErr

\* the two checks GetWorkflowContent makes of filePath
ContentPathError(filePath) ==
    IF ~HasPrefix(filePath, ".github/workflows/")
    THEN Error("invalid workflow file path: must be in .github/workflows/", 0)
    ELSE IF ~HasSuffix(filePath, ".yml") /\ ~HasSuffix(filePath, ".yaml")
    THEN Error("invalid workflow file: must be a .yml or .yaml file", 0)
    ELSE NoErr

\* a read operation returns
ReturnRead(p, name, e) ==
    /\ op' = [op EXCEPT ![p] = name]
    /\ pc' = [pc EXCEPT ![p] = IF e = NoErr THEN "done" ELSE "failed"]
    /\ err' = [err EXCEPT ![p] = e]

\* Service.GetWorkflows(ctx, token, owner, repo)
GetWorkflows(p) ==
    /\ op[p] = "none"
    /\ \E r \in AnswersJSON(GetContentsDir) :
         /\ Issue(p, "listFiles", r, GetContentsDir)
         /\ files' = [files EXCEPT ![p] = GetWorkflows_Result(r)[1]]
         /\ ReturnRead(p, "GetWorkflows", GetWorkflows_Result(r)[2])
    /\ UNCHANGED <<handlerVars, cancelled, now, refs, prs, repoExists, input, defaultBranch,
                   branchName, baseSHA, result, listing, fileContent, written>>

\* the legacy WorkflowService.GetWorkflows(ctx, token, owner, repo)
LegacyGetWorkflows(p) ==
    /\ op[p] = "none"
    /\ \E r \in AnswersJSON(GetContentsDir) :
         /\ Issue(p, "listFiles", r, GetContentsDir)
         /\ files' = [files EXCEPT ![p] = LegacyGetWorkflows_Result(r)[1]]
         /\ ReturnRead(p, "LegacyGetWorkflows", LegacyGetWorkflows_Result(r)[2])
    /\ UNCHANGED <<handlerVars, cancelled, now, refs, prs, repoExists, input, defaultBranch,
                   branchName, baseSHA, result, listing, fileContent, written>>

\* Service.GetWorkflowContent(ctx, token, owner, repo, filePath)
GetWorkflowContent(p) ==
    /\ op[p] = "none"
    /\ \E path \in UpdatePaths :
         /\ input' = [input EXCEPT ![p] =
                        [NoInput EXCEPT !.token = "gho_1", !.owner = "acme",
                                        !.repository = "svc", !.filePath = path]]
         /\ IF ContentPathError(path) # NoErr
            THEN /\ ReturnRead(p, "GetWorkflowContent", ContentPathError(path))
                 /\ UNCHANGED <<calls, lastResp, faults, fileContent>>
            ELSE \E r \in AnswersJSON(GetContentsFile(path)) :
                   LET out == GetFileContent(r) IN
                   /\ Issue(p, "getFile", r, GetContentsFile(path))
                   /\ IF out[3] # NoErr
                      THEN /\ ReturnRead(p, "GetWorkflowContent",
                                         Wrap("failed to fetch file content", out[3]))
                           /\ UNCHANGED fileContent
                      ELSE /\ ReturnRead(p, "GetWorkflowContent", NoErr)
                           /\ fileContent' = [fileContent EXCEPT ![p] =
                                 FileContentResponse(LastSegment(path), path, out[2], out[1])]
    /\ UNCHANGED <<handlerVars, cancelled, now, refs, prs, repoExists, defaultBranch,
                   branchName, baseSHA, result, listing, files, written>>

(* ---------------------------- the handlers ----------------------------- *)
\* the longest list of projects of a request
MaxProjects == 1

ProjectNames == {"api"}

\* the fields of a Project, of an EC2Project and of a KubernetesProject the
\* templates read
Project(name, dotEnvTesting) == [Name |-> name, DotEnvTesting |-> dotEnvTesting]

EC2Project(name, dockerNetwork, mountPath, enableGPU, logDriver, logDriverOptions) ==
    [Name |-> name, Command |-> "npm start", Port |-> "8080",
     DockerNetwork |-> dockerNetwork, MountPath |-> mountPath,
     EnableGPU |-> enableGPU, LogDriver |-> logDriver,
     LogDriverOptions |-> logDriverOptions]

\* an EC2 project without any of the optional fields
PlainEC2Project(name) == EC2Project(name, "", "", FALSE, "", "")

KubernetesProject(name) == [Name |-> name]

\* the lists of at most n elements of a set
ListsOf(S, n) == UNION {[1..k -> S] : k \in 0..n}

\* the lists of projects, of EC2 projects and of Kubernetes projects
ProjectLists == ListsOf({Project(n, "") : n \in ProjectNames}, MaxProjects)
EC2ProjectLists == ListsOf({PlainEC2Project(n) : n \in ProjectNames}, MaxProjects)
KubernetesProjectLists == ListsOf({KubernetesProject(n) : n \in ProjectNames}, MaxProjects)

\* the common fields of an EC2 and of a Kubernetes request
EC2CommonFields ==
    [AWSRegion |-> "us-east-1", JenkinsJobs |-> "deploy", ReleaseTag |-> "v1",
     CodeownersEmails |-> "dev@acme.io", DevopsStakeholdersEmails |-> "ops@acme.io"]
KubernetesCommonFields == [ReleaseTag |-> "v1"]

\* a name of 256 characters
LongName ==
    LET a16 == "aaaaaaaaaaaaaaaa"
        a64 == a16 \o a16 \o a16 \o a16
    IN a64 \o a64 \o a64 \o a64

\* a name of 255 characters
Name255 == SubSeq(LongName, 1, MaxNameLen)

RequestNames ==
    {"deploy-1", "Deploy_2", Name255, "bad/name", "a b", "deploy.yml", "", LongName}
RequestTypes == {DeploymentTypeEC2, DeploymentTypeKubernetes, "lambda"}

\* the request bodies
Requests ==
    [Owner : {"acme"}, Repository : {"svc"},
     WorkflowName : RequestNames,
     DeploymentType : RequestTypes,
     Projects : ProjectLists,
     EC2CommonFields : {Nil, Ref(EC2CommonFields)},
     EC2Projects : EC2ProjectLists,
     KubernetesCommonFields : {Nil, Ref(KubernetesCommonFields)},
     KubernetesProjects : KubernetesProjectLists]

NoRequest ==
    [Owner |-> "", Repository |-> "", WorkflowName |-> "", DeploymentType |-> "",
     Projects |-> << >>, EC2CommonFields |-> Nil, EC2Projects |-> << >>,
     KubernetesCommonFields |-> Nil, KubernetesProjects |-> << >>]

\* an HTTP response: the status, the error it reports and the data it carries
HTTP(status, e, data) == [status |-> status, err |-> e, data |-> data]
NoHTTP == HTTP(0, NoErr, "")

\* what TokenRepository.FindByUserID finds: the token, no record, or an error
TokenLookups == {"found", "missing", "error"}

\* Handler.getAccessToken: the token and the error; no record gives the empty
\* token and no error
getAccessToken(lookup) ==
    IF lookup = "error" THEN << "", Error("gorm error", 0) >>
    ELSE IF lookup = "missing" THEN << "", NoErr >>
    ELSE << "gho_1", NoErr >>

\* Handler.Create up to the call of Service.CreateWorkflow: the response it
\* returns early with, or NoHTTP
Create_Early(user, r, lookup) ==
    IF ~user THEN HTTP(StatusUnauthorized, NoErr, "")
    ELSE IF ShouldBindJSON(r) # NoErr THEN HTTP(StatusBadRequest, ShouldBindJSON(r), "")
    ELSE IF Validate(r) # NoErr THEN HTTP(StatusBadRequest, Validate(r), "")
    ELSE IF getAccessToken(lookup)[2] # NoErr
    THEN HTTP(StatusUnauthorized, getAccessToken(lookup)[2], "")
    ELSE IF GenerateWorkflow(r)[2] # NoErr
    THEN HTTP(StatusInternalServerError, GenerateWorkflow(r)[2], "")
    ELSE NoHTTP

\* Handler.Create: POST /api/workflows/create
Create(p) ==
    /\ handler[p] = "none" /\ op[p] = "none"
    /\ \E user \in BOOLEAN, r \in Requests, lookup \in TokenLookups :
         /\ request' = [request EXCEPT ![p] = r]
         /\ IF Create_Early(user, r, lookup) # NoHTTP
            THEN /\ http' = [http EXCEPT ![p] = Create_Early(user, r, lookup)]
                 /\ UNCHANGED <<op, input, pc>>
            ELSE /\ op' = [op EXCEPT ![p] = "create"]
                 /\ input' = [input EXCEPT ![p] =
                       [NoInput EXCEPT !.token = getAccessToken(lookup)[1],
                                       !.owner = r.Owner,
                                       !.repository = r.Repository,
                                       !.workflowName = r.WorkflowName,
                                       !.content = GenerateWorkflow(r)[1]]]
                 /\ pc' = [pc EXCEPT ![p] = "verify"]
                 /\ UNCHANGED http
    /\ handler' = [handler EXCEPT ![p] = "Create"]
    /\ UNCHANGED <<readVars, cancelled, now, refs, prs, repoExists, faults, calls, lastResp,
                   defaultBranch, branchName, baseSHA, err, result, vreq, vres, indentArgs, indentOut, written>>

\* Handler.Create after Service.CreateWorkflow has returned
Create_Respond(p) ==
    /\ handler[p] = "Create" /\ http[p] = NoHTTP
    /\ pc[p] \in {"done", "failed"}
    /\ http' = [http EXCEPT ![p] =
                  IF pc[p] = "failed"
                  THEN HTTP(StatusInternalServerError, err[p], "")
                  ELSE HTTP(StatusCreated, NoErr, result[p].FileURL)]
    /\ UNCHANGED <<readVars, cancelled, now, refs, prs, repoExists, faults, op, input, pc, calls,
                   lastResp, defaultBranch, branchName, baseSHA, err, result,
                   handler, request, vreq, vres, indentArgs, indentOut, written>>

\* the response of Handler.Preview
Preview_Response(user, r) ==
    IF ~user THEN HTTP(StatusUnauthorized, NoErr, "")
    ELSE IF ShouldBindJSON(r) # NoErr THEN HTTP(StatusBadRequest, ShouldBindJSON(r), "")
    ELSE IF Validate(r) # NoErr THEN HTTP(StatusBadRequest, Validate(r), "")
    ELSE IF GenerateWorkflow(r)[2] # NoErr
    THEN HTTP(StatusInternalServerError, GenerateWorkflow(r)[2], "")
    ELSE HTTP(StatusOK, NoErr, GenerateWorkflow(r)[1])

\* Handler.Preview: POST /api/workflows/preview
Preview(p) ==
    /\ handler[p] = "none" /\ op[p] = "none"
    /\ \E user \in BOOLEAN, r \in Requests :
         /\ request' = [request EXCEPT ![p] = r]
         /\ http' = [http EXCEPT ![p] = Preview_Response(user, r)]
    /\ handler' = [handler EXCEPT ![p] = "Preview"]
    /\ UNCHANGED <<readVars, cancelled, now, refs, prs, repoExists, faults, op, input, pc, calls,
                   lastResp, defaultBranch, branchName, baseSHA, err, result,
                   vreq, vres, indentArgs, indentOut, written>>

(* --------------------------- the indent helper ------------------------- *)
\* the widest indent and the longest text indent is called with
MaxIndent == 4
MaxTextLen == 4

TextChars == {"a", " ", "\n"}

\* the texts of at most n characters
RECURSIVE Texts(_)
Texts(n) ==
    IF n = 0 THEN {""}
    ELSE LET shorter == Texts(n - 1)
         IN shorter \cup {t \o c : t \in shorter, c \in TextChars}

NoIndentArgs == [spaces |-> 0, text |-> ""]
NoIndentOut == [returned |-> FALSE, text |-> ""]

\* a template calls indent
ApplyIndent ==
    /\ ~indentOut.returned
    /\ indentOut' = [returned |-> TRUE,
                     text |-> indent(indentArgs.spaces, indentArgs.text)]
    /\ UNCHANGED <<readVars, cancelled, now, refs, prs, repoExists, faults, op, input, pc, calls,
                   lastResp, defaultBranch, branchName, baseSHA, err, result,
                   handler, request, http, vreq, vres, indentArgs, written>>

\* the result of a function applied to a request: nothing applied yet
NoVRes == [fn |-> "none", ok |-> FALSE, yaml |-> "", lines |-> << >>, err |-> NoErr]

(* --------------------------- the EC2 template -------------------------- *)
\* the longest list of projects and of EC2 projects the template is executed on
MaxTemplateProjects == 2

\* the projects: two plain names and one with a comma, with and without a
\* dotEnvTesting of three lines
TemplateProjects ==
    {Project(n, d) : n \in {"api", "web"}, d \in {"", "A=1\n\nB=2"}}
        \cup {Project("api, web", "")}

\* the EC2 projects with every combination of the optional fields
TemplateEC2Projects ==
    {EC2Project("api", dn, mp, gpu, ld, ldo) :
        dn \in {"", "backend"}, mp \in {"", "/data"}, gpu \in BOOLEAN,
        ld \in {"", "json-file"}, ldo \in {"", "max-size=10m"}}

\* the lists of EC2 projects: the first takes every combination of the
\* optional fields, the ones after it are plain
TemplateEC2ProjectLists ==
    {<< e >> \o t : e \in TemplateEC2Projects,
                    t \in ListsOf({PlainEC2Project(n) : n \in {"api", "web"}},
                                  MaxTemplateProjects - 1)}

\* the valid EC2 requests the template is executed on
TemplateRequests ==
    [Owner : {"acme"}, Repository : {"svc"}, WorkflowName : {"deploy-1"},
     DeploymentType : {DeploymentTypeEC2},
     Projects : ListsOf(TemplateProjects, MaxTemplateProjects) \ {<< >>},
     EC2CommonFields : {Ref(EC2CommonFields)},
     EC2Projects : TemplateEC2ProjectLists,
     KubernetesCommonFields : {Nil},
     KubernetesProjects : {<< >>}]

\* s.ec2Template.Generate(req) is called on a valid EC2 request
ApplyEC2Generate ==
    /\ vres.fn = "none"
    /\ vreq \in TemplateRequests
    /\ vres' = [NoVRes EXCEPT !.fn = "EC2Generate",
                              !.lines = EC2Render(vreq),
                              !.yaml = EC2Generate(vreq)[1],
                              !.err = EC2Generate(vreq)[2]]
    /\ UNCHANGED <<readVars, cancelled, now, refs, prs, repoExists, faults, op, input, pc, calls,
                   lastResp, defaultBranch, branchName, baseSHA, err, result,
                   handler, request, http, vreq, indentArgs, indentOut, written>>

(* ---------------------- the validation functions ----------------------- *)

\* isValidWorkflowName(req.WorkflowName) is called
ApplyIsValidWorkflowName ==
    /\ vres.fn = "none"
    /\ vreq \in Requests
    /\ vres' = [NoVRes EXCEPT !.fn = "isValidWorkflowName",
                              !.ok = isValidWorkflowName(vreq.WorkflowName)]
    /\ UNCHANGED <<readVars, cancelled, now, refs, prs, repoExists, faults, op, input, pc, calls,
                   lastResp, defaultBranch, branchName, baseSHA, err, result,
                   handler, request, http, vreq, indentArgs, indentOut, written>>

\* req.Validate() is called on a request
ApplyValidate ==
    /\ vres.fn = "none"
    /\ vreq \in Requests
    /\ vres' = [NoVRes EXCEPT !.fn = "Validate", !.err = Validate(vreq)]
    /\ UNCHANGED <<readVars, cancelled, now, refs, prs, repoExists, faults, op, input, pc, calls,
                   lastResp, defaultBranch, branchName, baseSHA, err, result,
                   handler, request, http, vreq, indentArgs, indentOut, written>>

\* s.GenerateWorkflow(req) is called on a request
ApplyGenerateWorkflow ==
    /\ vres.fn = "none"
    /\ vreq \in Requests
    /\ vres' = [NoVRes EXCEPT !.fn = "GenerateWorkflow",
                              !.yaml = GenerateWorkflow(vreq)[1],
                              !.err = GenerateWorkflow(vreq)[2]]
    /\ UNCHANGED <<readVars, cancelled, now, refs, prs, repoExists, faults, op, input, pc, calls,
                   lastResp, defaultBranch, branchName, baseSHA, err, result,
                   handler, request, http, vreq, indentArgs, indentOut, written>>

\* a second passes
Tick ==
    /\ now < MaxClock
    /\ now' = now + 1
    /\ UNCHANGED <<handlerVars, readVars, cancelled, refs, prs, repoExists, faults, op, input, pc, calls, lastResp,
                   defaultBranch, branchName, baseSHA, err, result, written>>

(* --------------------------- specification ----------------------------- *)
\* the repository is missing, or exists without a commit, or has a first
\* commit, or has the workflow file on its default branch
InitRepository ==
    /\ prs = << >>
    /\ \/ repoExists = FALSE /\ refs = NoRefs
       \/ repoExists = TRUE /\ refs = NoRefs
       \/ repoExists = TRUE /\ refs = [b \in {MainBranch} |-> InitialCommit]
       \/ repoExists = TRUE /\ refs = [b \in {MainBranch} |-> CommitWithWorkflow]

InitInvocations ==
    /\ op = [p \in Procs |-> "none"]
    /\ input = [p \in Procs |-> NoInput]
    /\ pc = [p \in Procs |-> "idle"]
    /\ calls = [p \in Procs |-> << >>]
    /\ lastResp = [p \in Procs |-> NoResp]
    /\ defaultBranch = [p \in Procs |-> NoBranch]
    /\ branchName = [p \in Procs |-> NoBranch]
    /\ baseSHA = [p \in Procs |-> NoSHA]
    /\ err = [p \in Procs |-> NoErr]
    /\ result = [p \in Procs |-> NoResult]
    /\ handler = [p \in Procs |-> "none"]
    /\ request = [p \in Procs |-> NoRequest]
    /\ http = [p \in Procs |-> NoHTTP]
    /\ files = [p \in Procs |-> NilFiles]
    /\ fileContent = [p \in Procs |-> NoFileContent]
    /\ cancelled = [p \in Procs |-> FALSE]
    /\ written = NoWrite

Init ==
    /\ now = 0 /\ faults = 0
    /\ InitRepository /\ InitInvocations
    /\ vreq = NoRequest /\ vres = NoVRes
    /\ indentArgs = NoIndentArgs /\ indentOut = NoIndentOut
    /\ listing = Nil

Next ==
    \/ Tick
    \/ \E p \in Procs : CallCreateWorkflow(p)
    \/ \E p \in Procs : CallUpdateWorkflow(p)
    \/ \E p \in Procs : CreateWorkflow(p)
    \/ \E p \in Procs : UpdateWorkflow(p)

Spec == Init /\ [][Next]_vars

\* one HTTP request is served by Handler.Create or Handler.Preview
HandlerProc == CHOOSE p \in Procs : \A q \in Procs : p <= q

NextHandlers ==
    \/ Tick
    \/ Create(HandlerProc)
    \/ CreateWorkflow(HandlerProc)
    \/ Create_Respond(HandlerProc)
    \/ Preview(HandlerProc)

SpecHandlers == Init /\ [][NextHandlers]_vars

\* the validation functions are applied to any request
InitValidation ==
    /\ now = 0 /\ faults = 0
    /\ prs = << >> /\ repoExists = TRUE /\ refs = NoRefs
    /\ InitInvocations /\ listing = Nil
    /\ vreq \in Requests /\ vres = NoVRes
    /\ indentArgs = NoIndentArgs /\ indentOut = NoIndentOut

NextValidation ==
    \/ ApplyValidate
    \/ ApplyGenerateWorkflow
    \/ ApplyIsValidWorkflowName

SpecValidation == InitValidation /\ [][NextValidation]_vars

\* the EC2 template is executed on any valid EC2 request
InitEC2Template ==
    /\ now = 0 /\ faults = 0
    /\ prs = << >> /\ repoExists = TRUE /\ refs = NoRefs
    /\ InitInvocations /\ listing = Nil
    /\ vreq \in TemplateRequests /\ vres = NoVRes
    /\ indentArgs = NoIndentArgs /\ indentOut = NoIndentOut

NextEC2Template == ApplyEC2Generate

SpecEC2Template == InitEC2Template /\ [][NextEC2Template]_vars

\* the entries the directory .github/workflows may hold
MaxEntries == 3

DirEntries ==
    {Content("deploy-1.yml", "file"), Content("ci.yaml", "file"),
     Content("README.md", "file"), Content("notes.yml.bak", "file"),
     Content("old.yml", "dir")}

\* the listings of at most n entries, each name once
Listings(n) ==
    {l \in ListsOf(DirEntries, n) : \A i, j \in 1..Len(l) : l[i] = l[j] => i = j}

\* one read operation or update is served; the directory is absent from a
\* repository without a commit and lists the workflow file a commit added
InitRead ==
    /\ now = 0 /\ faults = 0
    /\ InitRepository /\ InitInvocations
    /\ vreq = NoRequest /\ vres = NoVRes
    /\ indentArgs = NoIndentArgs /\ indentOut = NoIndentOut
    /\ listing \in {Nil} \cup {Ref(l) : l \in Listings(MaxEntries)}
    /\ refs = NoRefs => listing = Nil
    /\ \A b \in DOMAIN refs :
         FileAt(refs[b], WorkflowPath) # "" =>
           /\ listing # Nil
           /\ \E i \in 1..Len(listing[1]) : listing[1][i] = Content("deploy-1.yml", "file")

NextRead ==
    \/ Tick
    \/ GetWorkflows(HandlerProc)
    \/ LegacyGetWorkflows(HandlerProc)
    \/ GetWorkflowContent(HandlerProc)
    \/ CallUpdateWorkflow(HandlerProc)
    \/ UpdateWorkflow(HandlerProc)

SpecRead == InitRead /\ [][NextRead]_vars

\* one publish runs under a context the caller may cancel, against a gateway
\* that may leave a call without an answer; the goroutine of the invocation
\* keeps running, the caller need not cancel and the gateway need not answer
NextContext ==
    \/ CallCreateWorkflow(HandlerProc)
    \/ CallUpdateWorkflow(HandlerProc)
    \/ CreateWorkflow(HandlerProc)
    \/ UpdateWorkflow(HandlerProc)
    \/ Cancel(HandlerProc)
    \/ Hang(HandlerProc)
    \/ CancelledCall(HandlerProc)
    \/ AbortInFlight(HandlerProc)

SpecContext ==
    /\ Init /\ [][NextContext]_vars
    /\ WF_vars(CreateWorkflow(HandlerProc) \/ UpdateWorkflow(HandlerProc))
    /\ WF_vars(CancelledCall(HandlerProc) \/ AbortInFlight(HandlerProc))

\* the write-file call is answered with any status
NextWriteFile == ApplyCreateFile \/ ApplyUpdateFile

SpecWriteFile == Init /\ [][NextWriteFile]_vars

\* indent is applied to any width and text
InitIndent ==
    /\ now = 0 /\ faults = 0
    /\ prs = << >> /\ repoExists = TRUE /\ refs = NoRefs
    /\ InitInvocations /\ listing = Nil
    /\ vreq = NoRequest /\ vres = NoVRes
    /\ indentArgs \in [spaces : 0..MaxIndent, text : Texts(MaxTextLen)]
    /\ indentOut = NoIndentOut

NextIndent == ApplyIndent

SpecIndent == InitIndent /\ [][NextIndent]_vars

(* ------------------------------ properties ----------------------------- *)
\* the fixed order of the gateway calls of a publish
Order == << "verify", "defaultBranch", "branchSHA", "createBranch", "writeFile", "createPR" >>

Last(q) == q[Len(q)]

\* C1: in every invocation of CreateWorkflow and of UpdateWorkflow the gateway
\* calls issued so far are a prefix of verify-repository, resolve-default-branch,
\* resolve-branch-SHA, create-branch, write-file, create-pull-request: none is
\* out of order and none is issued twice.
C1_CallsArePrefixOfOrder ==
    \A p \in Procs :
        /\ Len(calls[p]) <= Len(Order)
        /\ calls[p] = SubSeq(Order, 1, Len(calls[p]))

\* a CreateWorkflow and an UpdateWorkflow have both issued all six calls
C1_Witness ==
    \E p, q \in Procs :
        /\ op[p] = "create" /\ calls[p] = Order
        /\ op[q] = "update" /\ calls[q] = Order

\* the gateway did not serve the request: no answer, a non-2xx status, or a
\* body that cannot be read
GatewayFailed(m) == m.transport \/ m.status < 200 \/ m.status >= 300 \/ ~m.bodyOK

\* the error the client method of a call returns for an answer
ClientError(call, kind, m) ==
    LET r == [transport |-> m.transport, status |-> m.status,
              bodyOK |-> m.bodyOK, body |-> EmptyBody] IN
    CASE call = "verify" -> VerifyRepository(r)
      [] call = "defaultBranch" -> GetDefaultBranch(r)[2]
      [] call = "branchSHA" -> GetBranchSHA(r)[2]
      [] call = "createBranch" -> CreateBranch(r)
      [] call = "writeFile" -> IF kind = "create" THEN CreateFile(r) ELSE UpdateFile(r)
      [] call = "createPR" -> CreatePullRequest(r)[3]

C2_FailedStepAborts ==
    \A p \in Procs :
        (calls[p] # << >> /\ GatewayFailed(lastResp[p])) =>
            /\ pc[p] = "failed"
            /\ result[p] = NoResult
            /\ err[p] # NoErr
            /\ err[p].kind = ClientError(Last(calls[p]), op[p], lastResp[p]).kind
            /\ err[p].status = ClientError(Last(calls[p]), op[p], lastResp[p]).status

C2_NoStepAfterFailure ==
    \A p \in Procs :
        pc[p] = "failed" =>
            /\ calls'[p] = calls[p]
            /\ pc'[p] = "failed"
            /\ err'[p] = err[p]
            /\ result'[p] = NoResult

\* C2: in CreateWorkflow and UpdateWorkflow, when a gateway step fails the
\* invocation is failed with the error of that step and without a result,
\* and from then on it issues no further gateway call.
C2_FirstFailureIsReturned ==
    [] C2_FailedStepAborts /\ [][C2_NoStepAfterFailure]_vars

\* both orchestrators have failed at a step after the first one
C2_Witness ==
    \E p, q \in Procs :
        /\ op[p] = "create" /\ pc[p] = "failed" /\ Last(calls[p]) = "writeFile"
        /\ GatewayFailed(lastResp[p])
        /\ op[q] = "update" /\ pc[q] = "failed" /\ Len(calls[q]) = 4
        /\ GatewayFailed(lastResp[q])

\* the invocation has failed at the given call
FailedAt(p, call) ==
    pc[p] = "failed" /\ calls[p] # << >> /\ Last(calls[p]) = call

\* C3: when the repository was verified and the resolution of
\* the branch SHA is answered 404, CreateWorkflow fails with an error that is
\* not of the not-found class a failed verification returns, and issues no
\* create-branch, write-file or create-pull-request call.
C3_EmptyRepositoryIsDistinct ==
    \A p \in Procs :
        (op[p] = "create" /\ FailedAt(p, "branchSHA")
            /\ repoExists /\ MainBranch \notin DOMAIN refs
            /\ ~lastResp[p].transport /\ lastResp[p].status = StatusNotFound) =>
            /\ Len(calls[p]) = 3
            /\ err[p].kind # ErrNotFound.kind

\* C4: when UpdateWorkflow has issued the write-file call with a sha that is
\* not the SHA the file has (on the commit the new branch starts from), the
\* invocation is failed at write-file, the file on the new branch is as it
\* was on the base commit, and no create-pull-request call is issued.
C4_StaleSHAWriteFails ==
    \A p \in Procs :
        (op[p] = "update" /\ Len(calls[p]) >= 5
            /\ FileAt(baseSHA[p], input[p].filePath) \notin {"", input[p].sha}) =>
            /\ FailedAt(p, "writeFile")
            /\ calls[p] = SubSeq(Order, 1, 5)
            /\ branchName[p] \in DOMAIN refs
            /\ FileAt(refs[branchName[p]], input[p].filePath)
                 = FileAt(baseSHA[p], input[p].filePath)
            /\ \A i \in 1..Len(prs) : prs[i].head # branchName[p]

\* an update with a stale sha was turned down by the repository itself (409)
C4_Witness ==
    \E p \in Procs :
        /\ op[p] = "update" /\ FailedAt(p, "writeFile")
        /\ input[p].sha = "stale"
        /\ FileAt(baseSHA[p], input[p].filePath) = "v0"
        /\ lastResp[p].status = StatusConflict

\* C5: the error of an UpdateWorkflow whose write-file call was
\* answered 409 is not the generic APIFailed error.
C5_ConflictIsNotAPIFailed ==
    \A p \in Procs :
        (op[p] = "update" /\ FailedAt(p, "writeFile")
            /\ ~lastResp[p].transport /\ lastResp[p].status = StatusConflict) =>
            err[p].kind # ErrAPIFailed(StatusConflict).kind

\* the invocation has computed its branch name
HasBranchName(p) == Len(calls[p]) >= 2 /\ branchName[p] # NoBranch

\* two invocations of the same operation for the same owner, repository and
\* workflow name have distinct branch names
C6_BranchNamesDistinct ==
    \A p, q \in Procs :
        (p # q /\ op[p] = op[q] /\ HasBranchName(p) /\ HasBranchName(q)
            /\ branchName[p].name = branchName[q].name) =>
            branchName[p] # branchName[q]

\* when no request of either invocation was turned down by a fault, two
\* publishes of the same workflow both end with a pull request
C6_BothPublishesOpenPullRequests ==
    \A p, q \in Procs :
        (p # q /\ op[p] = "create" /\ op[q] = "create" /\ faults = 0
            /\ refs # NoRefs /\ MainBranch \in DOMAIN refs
            /\ FileAt(refs[MainBranch], WorkflowPath) = ""
            /\ pc[p] \in {"done", "failed"} /\ pc[q] \in {"done", "failed"}) =>
            pc[p] = "done" /\ pc[q] = "done" /\ Len(prs) = 2

\* C6: two publishes of the same workflow, however close in time, get distinct
\* branch names and, when the gateway turns down no well-formed call, both end
\* with a pull request: two pull requests exist afterwards.
C6_TwoPublishesTwoPullRequests ==
    C6_BranchNamesDistinct /\ C6_BothPublishesOpenPullRequests

\* the request is invalid: the workflow name does not match the pattern or the
\* length bound, the deployment type is unknown, or the field group its
\* deployment type requires is absent or empty
InvalidRequest(r) ==
    \/ ~isValidWorkflowName(r.WorkflowName)
    \/ r.DeploymentType \notin {DeploymentTypeEC2, DeploymentTypeKubernetes}
    \/ /\ r.DeploymentType = DeploymentTypeEC2
       /\ (r.EC2CommonFields = Nil \/ r.EC2Projects = << >>)
    \/ /\ r.DeploymentType = DeploymentTypeKubernetes
       /\ (r.KubernetesCommonFields = Nil \/ r.KubernetesProjects = << >>)

\* C7: Handler.Create never calls Service.CreateWorkflow for an invalid
\* request: no gateway call is issued for it and the repository is as it was.
C7_InvalidRequestMakesNoGatewayCall ==
    \A p \in Procs :
        (handler[p] = "Create" /\ InvalidRequest(request[p])) =>
            /\ op[p] = "none"
            /\ calls[p] = << >>
            /\ http[p] # NoHTTP
            /\ prs = << >>
            /\ \A b \in DOMAIN refs : b = MainBranch

\* Handler.Create has answered a request that passes the binding and
\* Request.Validate but has an invalid workflow name, without a gateway call
C7_Witness ==
    \E p \in Procs :
        /\ handler[p] = "Create" /\ http[p] # NoHTTP
        /\ ShouldBindJSON(request[p]) = NoErr /\ Validate(request[p]) = NoErr
        /\ ~isValidWorkflowName(request[p].WorkflowName)
        /\ http[p].err = ErrInvalidWorkflowName
        /\ calls[p] = << >>

\* the errors of the validation of a request
ValidationErrors ==
    {ErrBinding, ErrInvalidWorkflowName, ErrInvalidDeploymentType,
     ErrEC2CommonFieldsRequired, ErrEC2ProjectsRequired,
     ErrKubernetesCommonFieldsRequired, ErrKubernetesProjectsRequired}

\* C8: a response of Handler.Create or Handler.Preview that reports a
\* validation error has a 4xx status.
C8_ValidationErrorsAre4xx ==
    \A p \in Procs :
        (handler[p] \in {"Create", "Preview"} /\ http[p] # NoHTTP
            /\ http[p].err \in ValidationErrors) =>
            http[p].status >= 400 /\ http[p].status < 500

\* the EC2 request lacks ec2CommonFields
EC2CommonFieldsAbsent(r) ==
    r.DeploymentType = DeploymentTypeEC2 /\ r.EC2CommonFields = Nil

\* the Kubernetes request lacks kubernetesCommonFields
KubernetesCommonFieldsAbsent(r) ==
    r.DeploymentType = DeploymentTypeKubernetes /\ r.KubernetesCommonFields = Nil

\* C9, as stated: Request.Validate and GenerateWorkflow both return
\* EC2CommonFieldsRequired for every EC2 request without ec2CommonFields, and
\* KubernetesCommonFieldsRequired for every Kubernetes request without
\* kubernetesCommonFields, whatever the other fields.
C9_CommonFieldsRequiredAlways ==
    vres.fn \in {"Validate", "GenerateWorkflow"} =>
        /\ EC2CommonFieldsAbsent(vreq) => vres.err = ErrEC2CommonFieldsRequired
        /\ KubernetesCommonFieldsAbsent(vreq) =>
               vres.err = ErrKubernetesCommonFieldsRequired

\* C9: Request.Validate returns EC2CommonFieldsRequired for every EC2 request
\* without ec2CommonFields (KubernetesCommonFieldsRequired for every
\* Kubernetes request without kubernetesCommonFields) whatever the other
\* fields; GenerateWorkflow returns it when the workflow name is valid and
\* InvalidWorkflowName when it is not.
C9_CommonFieldsRequired ==
    LET expected == IF EC2CommonFieldsAbsent(vreq)
                    THEN ErrEC2CommonFieldsRequired
                    ELSE ErrKubernetesCommonFieldsRequired
    IN  (EC2CommonFieldsAbsent(vreq) \/ KubernetesCommonFieldsAbsent(vreq)) =>
            /\ vres.fn = "Validate" => vres.err = expected
            /\ vres.fn = "GenerateWorkflow" =>
                   vres.err = IF isValidWorkflowName(vreq.WorkflowName)
                              THEN expected
                              ELSE ErrInvalidWorkflowName

\* Request.Validate has returned EC2CommonFieldsRequired for an EC2 request
\* with an invalid name, no EC2 project and both Kubernetes groups
C9_Witness ==
    /\ vres.fn = "Validate" /\ vres.err = ErrEC2CommonFieldsRequired
    /\ EC2CommonFieldsAbsent(vreq)
    /\ vreq.WorkflowName = "bad/name" /\ vreq.EC2Projects = << >>
    /\ vreq.KubernetesCommonFields # Nil /\ vreq.KubernetesProjects # << >>

\* C10: a request Request.Validate or GenerateWorkflow accepts carries only
\* the field groups of its deployment type: an accepted EC2 request has no
\* Kubernetes group and an accepted Kubernetes request has no EC2 group.
C10_ExactlyOneGroupPopulated ==
    (vres.fn \in {"Validate", "GenerateWorkflow"} /\ vres.err = NoErr) =>
        /\ vreq.DeploymentType = DeploymentTypeEC2 =>
               vreq.KubernetesCommonFields = Nil /\ vreq.KubernetesProjects = << >>
        /\ vreq.DeploymentType = DeploymentTypeKubernetes =>
               vreq.EC2CommonFields = Nil /\ vreq.EC2Projects = << >>

\* the deployment type of the request is neither ec2 nor kubernetes
UnknownDeploymentType(r) ==
    r.DeploymentType \notin {DeploymentTypeEC2, DeploymentTypeKubernetes}

\* C11, as stated: for a request of an unknown deployment type Request.Validate
\* returns InvalidDeploymentType, and so does GenerateWorkflow when the
\* workflow name is valid, without a rendered template.
C11_InvalidDeploymentTypeEverywhere ==
    UnknownDeploymentType(vreq) =>
        /\ vres.fn = "Validate" => vres.err = ErrInvalidDeploymentType
        /\ (vres.fn = "GenerateWorkflow" /\ isValidWorkflowName(vreq.WorkflowName)) =>
               vres.err = ErrInvalidDeploymentType /\ vres.yaml = ""

\* C11: for a request of an unknown deployment type GenerateWorkflow, given a
\* valid workflow name, returns InvalidDeploymentType and no rendered
\* template; Request.Validate returns no error for it.
C11_InvalidDeploymentType ==
    UnknownDeploymentType(vreq) =>
        /\ vres.fn = "Validate" => vres.err = NoErr
        /\ (vres.fn = "GenerateWorkflow" /\ isValidWorkflowName(vreq.WorkflowName)) =>
               vres.err = ErrInvalidDeploymentType /\ vres.yaml = ""

\* GenerateWorkflow has turned down a request of type "lambda" that has a
\* valid name and both field groups
C11_Witness ==
    /\ vres.fn = "GenerateWorkflow" /\ vres.err = ErrInvalidDeploymentType
    /\ vreq.DeploymentType = "lambda" /\ vreq.WorkflowName = "deploy-1"
    /\ vreq.EC2CommonFields # Nil /\ vreq.EC2Projects # << >>
    /\ vreq.KubernetesCommonFields # Nil /\ vreq.KubernetesProjects # << >>

\* the name has 1 to 255 characters, all of them letters, digits, '_' or '-'
AcceptableName(name) ==
    /\ Len(name) >= 1 /\ Len(name) <= 255
    /\ \A i \in 1..Len(name) : SubSeq(name, i, i) \in NameChars

\* C12: isValidWorkflowName accepts a name exactly when it has 1 to 255
\* characters of [A-Za-z0-9_-] (the 255-character name passes; the
\* 256-character name, the empty name and a name with '/' fail), and
\* GenerateWorkflow returns InvalidWorkflowName for every rejected name.
C12_NameAcceptedIffWellFormed ==
    /\ vres.fn = "isValidWorkflowName" =>
           /\ vres.ok <=> AcceptableName(vreq.WorkflowName)
           /\ vreq.WorkflowName = Name255 => vres.ok
           /\ vreq.WorkflowName \in {LongName, "", "bad/name"} => ~vres.ok
    /\ vres.fn = "GenerateWorkflow" =>
           (vres.err = ErrInvalidWorkflowName <=> ~AcceptableName(vreq.WorkflowName))

\* isValidWorkflowName has accepted a name of 255 characters
C12_Witness ==
    /\ vres.fn = "isValidWorkflowName" /\ vres.ok
    /\ Len(vreq.WorkflowName) = 255

\* C13: the text indent returns has as many lines as the text it was given;
\* each non-empty line of the input is prefixed by exactly n spaces and each
\* empty line stays empty (three lines with an empty middle one, n = 4: the
\* first and the third get 4 spaces, the second stays empty).
C13_IndentPrefixesNonEmptyLines ==
    indentOut.returned =>
        LET inLines == SplitLines(indentArgs.text)
            outLines == SplitLines(indentOut.text)
        IN /\ Len(outLines) = Len(inLines)
           /\ \A i \in 1..Len(inLines) :
                  /\ inLines[i] = "" => outLines[i] = ""
                  /\ inLines[i] # "" =>
                         /\ Len(outLines[i]) = indentArgs.spaces + Len(inLines[i])
                         /\ \A k \in 1..indentArgs.spaces : SubSeq(outLines[i], k, k) = " "
                         /\ SubSeq(outLines[i], indentArgs.spaces + 1, Len(outLines[i]))
                                = inLines[i]
           /\ (indentArgs.text = "a\n\na" /\ indentArgs.spaces = 4) =>
                  indentOut.text = "    a\n\n    a"

\* indent has been applied with width 4 to three lines whose middle one is empty
C13_Witness ==
    /\ indentOut.returned
    /\ indentArgs.spaces = 4 /\ indentArgs.text = "a\n\na"
    /\ indentOut.text = "    a\n\n    a"

\* the entries of a YAML flow sequence, read from the i-th character of its
\* text with the entry cur begun: entries are separated by ',' and the spaces
\* before an entry do not belong to it
RECURSIVE FlowEntriesFrom(_, _, _)
FlowEntriesFrom(s, i, cur) ==
    IF i > Len(s) THEN << cur >>
    ELSE IF SubSeq(s, i, i) = "," THEN << cur >> \o FlowEntriesFrom(s, i + 1, "")
    ELSE IF SubSeq(s, i, i) = " " /\ cur = "" THEN FlowEntriesFrom(s, i + 1, cur)
    ELSE FlowEntriesFrom(s, i + 1, cur \o SubSeq(s, i, i))

MatrixPrefix == "        project: ["

\* the entries of the list of a line `project: [...]`
MatrixEntries(line) ==
    LET inner == SubSeq(line, Len(MatrixPrefix) + 1, Len(line) - 1)
    IN IF inner = "" THEN << >> ELSE FlowEntriesFrom(inner, 1, "")

\* the `project: [...]` lines of a rendered workflow, in order
MatrixLines(lines) == SelectSeq(lines, LAMBDA l : HasPrefix(l, MatrixPrefix))

\* the names of a list of projects
Names(projects) == [i \in 1..Len(projects) |-> projects[i].Name]

\* C14: in the workflow rendered for a valid EC2 request the matrix list of
\* the build job has the names of the projects as its entries and the matrix
\* list of the deploy job the names of the EC2 projects, one entry each, in
\* the order of the request.
C14_MatrixEntriesMatchProjects ==
    vres.fn = "EC2Generate" =>
        /\ vres.err = NoErr
        /\ Len(MatrixLines(vres.lines)) = 2
        /\ MatrixEntries(MatrixLines(vres.lines)[1]) = Names(vreq.Projects)
        /\ MatrixEntries(MatrixLines(vres.lines)[2]) = Names(vreq.EC2Projects)

\* the indices of the lines that open the configuration of an EC2 project
EC2BlockStarts(lines) ==
    {i \in 1..Len(lines) : HasPrefix(lines[i], "      # EC2 specific configuration for ")}

\* the k-th smallest element of a set of numbers
Kth(S, k) == CHOOSE i \in S : Cardinality({j \in S : j < i}) = k - 1

\* the lines of the configuration that starts at line i: up to the next
\* configuration or the secrets of the job
EC2Block(lines, i) ==
    LET ends == {j \in (i + 1)..Len(lines) :
                    j \in EC2BlockStarts(lines) \/ lines[j] = "    secrets:"}
        last == IF ends = {} THEN Len(lines) ELSE Kth(ends, 1) - 1
    IN {lines[j] : j \in (i + 1)..last}

\* the block has a line of the given key of the with: mapping
HasKey(block, key) == \E l \in block : HasPrefix(l, "      " \o key \o ":")

\* C15: the configuration rendered for every EC2 project has its command and
\* its port line, and has the docker_network, mount_path, enable_gpu: true,
\* log_driver and log_driver_options line exactly when that field of the
\* project is non-empty (true for enableGPU), whatever the other four are.
C15_OptionalLinesGatedIndependently ==
    vres.fn = "EC2Generate" =>
        /\ Cardinality(EC2BlockStarts(vres.lines)) = Len(vreq.EC2Projects)
        /\ \A k \in 1..Len(vreq.EC2Projects) :
               LET e == vreq.EC2Projects[k]
                   block == EC2Block(vres.lines, Kth(EC2BlockStarts(vres.lines), k))
               IN /\ ("      command: " \o e.Command) \in block
                  /\ ("      port: " \o e.Port) \in block
                  /\ HasKey(block, "docker_network") <=> e.DockerNetwork # ""
                  /\ HasKey(block, "mount_path") <=> e.MountPath # ""
                  /\ HasKey(block, "enable_gpu") <=> e.EnableGPU
                  /\ HasKey(block, "log_driver") <=> e.LogDriver # ""
                  /\ HasKey(block, "log_driver_options") <=> e.LogDriverOptions # ""
                  /\ e.DockerNetwork # "" =>
                         ("      docker_network: " \o e.DockerNetwork) \in block
                  /\ e.MountPath # "" => ("      mount_path: " \o e.MountPath) \in block
                  /\ e.EnableGPU => "      enable_gpu: true" \in block
                  /\ e.LogDriver # "" => ("      log_driver: " \o e.LogDriver) \in block
                  /\ e.LogDriverOptions # "" =>
                         ("      log_driver_options: " \o e.LogDriverOptions) \in block

\* the template was executed on two EC2 projects, the first with a docker
\* network, GPU and log driver options but without mount path and log driver
C15_Witness ==
    /\ vres.fn = "EC2Generate" /\ vres.err = NoErr
    /\ Len(vreq.EC2Projects) = 2
    /\ vreq.EC2Projects[1].DockerNetwork # "" /\ vreq.EC2Projects[1].MountPath = ""
    /\ vreq.EC2Projects[1].EnableGPU
    /\ vreq.EC2Projects[1].LogDriver = "" /\ vreq.EC2Projects[1].LogDriverOptions # ""
    /\ "      log_driver_options: max-size=10m" \in
           EC2Block(vres.lines, Kth(EC2BlockStarts(vres.lines), 1))

\* the number of lines of the given key, at the depth of the with: mapping,
\* among the lines first..last
KeyCount(lines, first, last, key) ==
    Cardinality({i \in first..last : HasPrefix(lines[i], "      " \o key \o ":")})

\* the index of the line that opens the deploy job
DeployJobStart(lines) == CHOOSE i \in 1..Len(lines) : lines[i] = "  deploy-to-ec2:"

\* C16: in the workflow rendered for a valid EC2 request no key occurs twice
\* in a mapping: dot_env_file_testing occurs at most once in the with: mapping
\* of the build job, command and port at most once in that of the deploy job.
C16_NoDuplicateKeys ==
    vres.fn = "EC2Generate" =>
        LET lines == vres.lines
            deploy == DeployJobStart(lines)
        IN /\ KeyCount(lines, 1, deploy - 1, "dot_env_file_testing") <= 1
           /\ KeyCount(lines, deploy, Len(lines), "command") <= 1
           /\ KeyCount(lines, deploy, Len(lines), "port") <= 1

\* an invocation that listed the workflows of the repository
Listed(p) == op[p] \in {"GetWorkflows", "LegacyGetWorkflows"}

\* the gateway answered the listing with this status
ListStatus(p) == IF lastResp[p].transport THEN 0 ELSE lastResp[p].status

\* C17: GetWorkflows, of the service and of the legacy service, returns an
\* empty list and no error when the gateway answers 404 for .github/workflows,
\* and an error and no list when it answers any other status that is not a
\* success.
C17_NotFoundIsEmptyList ==
    \A p \in Procs :
      Listed(p) /\ ~lastResp[p].transport =>
        /\ ListStatus(p) = 404 =>
             pc[p] = "done" /\ err[p] = NoErr /\ files[p] = [isNil |-> FALSE, items |-> << >>]
        /\ ListStatus(p) # 404 /\ (ListStatus(p) < 200 \/ ListStatus(p) >= 300) =>
             pc[p] = "failed" /\ err[p] # NoErr /\ files[p].isNil

\* a listing was answered 404 although the repository exists, and the empty
\* list came back
C17_Witness ==
    \E p \in Procs :
      /\ op[p] = "GetWorkflows" /\ repoExists /\ listing = << >>
      /\ ListStatus(p) = 404 /\ ~files[p].isNil /\ files[p].items = << >>

\* the entries a listing is meant to keep
Wanted(e) ==
    /\ e.Type = "file"
    /\ \E ext \in {".yml", ".yaml"} :
         Len(e.Name) >= Len(ext) /\ SubSeq(e.Name, Len(e.Name) - Len(ext) + 1, Len(e.Name)) = ext

\* out holds the wanted entries of l, each once and in the order of l
KeepsWanted(l, out) ==
    \E f \in [1..Len(out) -> 1..Len(l)] :
      /\ \A i, j \in 1..Len(out) : i < j => f[i] < f[j]
      /\ {f[i] : i \in 1..Len(out)} = {k \in 1..Len(l) : Wanted(l[k])}
      /\ \A i \in 1..Len(out) : out[i].Name = l[f[i]].Name /\ out[i].Path = l[f[i]].Path

\* C18: the list GetWorkflows returns holds exactly the entries of the
\* directory whose type is file and whose name ends in .yml or .yaml, in the
\* order the gateway listed them.
C18_ListIsFilteredInOrder ==
    \A p \in Procs :
      Listed(p) /\ pc[p] = "done" /\ listing # << >> /\ ListStatus(p) = 200 =>
        KeepsWanted(listing[1], files[p].items)

\* a listing of three entries came back without its middle entry, a
\* directory, and with the two others in the order of the gateway
C18_Witness ==
    \E p \in Procs :
      /\ op[p] = "GetWorkflows" /\ pc[p] = "done" /\ ListStatus(p) = 200
      /\ listing # << >> /\ Len(listing[1]) = 3
      /\ listing[1][1].Name = "ci.yaml" /\ listing[1][2].Type = "dir"
      /\ listing[1][3].Name = "deploy-1.yml"
      /\ Len(files[p].items) = 2 /\ files[p].items[1].Name = "ci.yaml"

\* the path is in .github/workflows/ and names a .yml or .yaml file
WorkflowFilePath(path) ==
    /\ Len(path) >= 18 /\ SubSeq(path, 1, 18) = ".github/workflows/"
    /\ \E ext \in {".yml", ".yaml"} :
         Len(path) >= Len(ext) /\ SubSeq(path, Len(path) - Len(ext) + 1, Len(path)) = ext

\* C19: UpdateWorkflow and GetWorkflowContent, given a path that does not
\* start with .github/workflows/ or does not end in .yml or .yaml, return an
\* error without any gateway call.
C19_BadPathMakesNoGatewayCall ==
    \A p \in Procs :
      op[p] \in {"update", "GetWorkflowContent"} /\ ~WorkflowFilePath(input[p].filePath) =>
        pc[p] = "failed" /\ err[p] # NoErr /\ calls[p] = << >>

\* GetWorkflowContent was given a path in the directory that names no YAML file
C19_Witness ==
    \E p \in Procs :
      /\ op[p] = "GetWorkflowContent" /\ input[p].filePath = ".github/workflows/deploy-1.txt"
      /\ pc[p] = "failed" /\ calls[p] = << >>

\* one of the segments of the path is ".."
RECURSIVE HasDotDotFrom(_, _, _)
HasDotDotFrom(path, i, seg) ==
    IF i > Len(path) THEN seg = ".."
    ELSE IF SubSeq(path, i, i) = "/" THEN seg = ".." \/ HasDotDotFrom(path, i + 1, "")
    ELSE HasDotDotFrom(path, i + 1, seg \o SubSeq(path, i, i))

HasDotDotSegment(path) == HasDotDotFrom(path, 1, "")

\* C20: UpdateWorkflow rejects, before any gateway call, every path that has a
\* ".." segment, so that no write-file call is made for a path that resolves
\* outside .github/workflows/.
C20_TraversalPathIsRejected ==
    \A p \in Procs :
      op[p] = "update" /\ HasDotDotSegment(input[p].filePath) =>
        pc[p] = "failed" /\ err[p] # NoErr /\ calls[p] = << >>

\* sub occurs in s
Contains(s, sub) ==
    \E i \in 1..(Len(s) - Len(sub) + 1) : SubSeq(s, i, i + Len(sub) - 1) = sub

\* the pull requests GitHub opened for the branch of invocation p
PullsOf(p) == {i \in 1..Len(prs) : prs[i].head = branchName[p]}

\* C21: when all six steps of CreateWorkflow succeed, the result has filePath
\* .github/workflows/{workflowName}.yml, fileURL the HTML URL of the pull
\* request the last step opened, and a message that contains its number.
C21_ResultNamesFileAndPullRequest ==
    \A p \in Procs :
      op[p] = "create" /\ pc[p] = "done" /\ lastResp[p].status = 201 =>
        /\ result[p].FilePath = ".github/workflows/" \o input[p].workflowName \o ".yml"
        /\ \E i \in PullsOf(p) :
             /\ result[p].FileURL = PRURL(prs[i].number)
             /\ Contains(result[p].Message, "#" \o ToString(prs[i].number) \o " ")

\* a CreateWorkflow went through its six calls and returned the result for
\* the second pull request of the repository
C21_Witness ==
    \E p \in Procs :
      /\ op[p] = "create" /\ pc[p] = "done" /\ Len(calls[p]) = 6
      /\ result[p].FileURL = PRURL(2)

\* the status of a gateway answer that is not a success
FailureStatus(m) == ~m.transport /\ (m.status < 200 \/ m.status >= 300)

\* C22: the error of a failed step identifies the step: the same gateway
\* status at any other step of the same operation yields a different error.
C22_ErrorIdentifiesStep ==
    \A p \in Procs :
      /\ op[p] \in {"create", "update"} /\ pc[p] = "failed"
      /\ calls[p] # << >> /\ FailureStatus(lastResp[p])
      => \A k \in 1..Len(Order) :
           Order[k] # Last(calls[p]) =>
             StepError(op[p], Order[k], Response(lastResp[p].status, EmptyBody)) # err[p]

\* the sentinel a status that is not a success is classified as
Classified(status) ==
    CASE status = 401 -> "ErrUnauthorized"
      [] status = 403 -> "ErrForbidden"
      [] status = 404 -> "ErrNotFound"
      [] OTHER -> "ErrAPIFailed"

\* C23: at every gateway call of the publish sequence an answer that is not a
\* success is classified by its status as Unauthorized, Forbidden, NotFound or
\* APIFailed, the last carrying the status, and a 2xx answer is no error.
C23_FailuresClassifiedByStatus ==
    \A p \in Procs :
      op[p] \in {"create", "update"} /\ calls[p] # << >> /\ ~lastResp[p].transport =>
        /\ FailureStatus(lastResp[p]) =>
             /\ pc[p] = "failed"
             /\ err[p].kind = Classified(lastResp[p].status)
             /\ err[p].kind = "ErrAPIFailed" => err[p].status = lastResp[p].status
        /\ ~FailureStatus(lastResp[p]) /\ lastResp[p].bodyOK => pc[p] # "failed"

C25_EveryPublishTerminates ==
    \A p \in Procs :
      (op[p] \in {"create", "update"}) ~> (pc[p] \in {"done", "failed"})

\* a is an initial part of b
IsPrefix(a, b) == Len(a) <= Len(b) /\ SubSeq(b, 1, Len(a)) = a

\* the invocation failed at its create-pull-request call, which GitHub
\* turned down
FailedAtPullRequest(p) ==
    /\ pc[p] = "failed" /\ calls[p] # << >> /\ calls[p][Len(calls[p])] = "createPR"
    /\ lastResp[p].transport \/ lastResp[p].status < 200 \/ lastResp[p].status >= 300

C27_WriteFileSucceedsOnlyOn200And201 ==
    written.fn \in {"CreateFile", "UpdateFile"} /\ written.status \notin {200, 201} =>
      written.err # NoErr /\ written.next # "createPR"

\* the branches invocations have named so far
NewBranches == {branchName[p] : p \in {q \in Procs : branchName[q] # NoBranch}}

\* C28: the only ref CreateWorkflow and UpdateWorkflow create is their new
\* workflow/... or update-workflow/... branch, at the base SHA the invocation
\* read; the file is written to that branch; the pull request goes from that
\* branch to the default branch the invocation resolved; and the tip of the
\* default branch never changes.
C28_OnlyTheNewBranchChanges ==
    [][/\ \A b \in DOMAIN refs' \ DOMAIN refs :
            /\ b.kind \in {"workflow", "update-workflow"}
            /\ \E p \in Procs : b = branchName[p] /\ refs'[b] = baseSHA[p]
       /\ \A b \in DOMAIN refs :
            /\ b \in DOMAIN refs'
            /\ refs'[b] # refs[b] =>
                 /\ b \in NewBranches
                 /\ \A p \in Procs : b # defaultBranch[p]
       /\ Len(prs') > Len(prs) =>
            \E p \in Procs : /\ branchName[p] # NoBranch
                             /\ prs'[Len(prs')].head = branchName[p]
                             /\ prs'[Len(prs')].base = defaultBranch[p]
                             /\ prs'[Len(prs')].base # prs'[Len(prs')].head]_vars

\* an UpdateWorkflow opened its pull request from its update-workflow/...
\* branch to main, and main is where it was
C28_Witness ==
    \E p \in Procs :
      /\ op[p] = "update" /\ pc[p] = "done"
      /\ branchName[p].kind = "update-workflow" /\ branchName[p] \in DOMAIN refs
      /\ \E i \in 1..Len(prs) : prs[i].head = branchName[p] /\ prs[i].base.name = "main"
      /\ refs[defaultBranch[p]] = baseSHA[p]

\* the write-file call of the invocation succeeded
FileWritten(p) ==
    /\ Len(calls[p]) >= 5
    /\ pc[p] = "createPR" \/ Len(calls[p]) = 6

\* C29: of two concurrent UpdateWorkflow invocations for the same file that
\* carry the same sha, the one the file has on the default branch, at most
\* one reaches FileWritten.
C29_OneOfTwoUpdatesIsWritten ==
    \A p, q \in Procs :
      /\ p # q /\ op[p] = "update" /\ op[q] = "update"
      /\ input[p].filePath = input[q].filePath /\ input[p].sha = input[q].sha
      /\ MainBranch \in DOMAIN refs
      /\ input[p].sha # "" /\ input[p].sha = FileAt(refs[MainBranch], input[p].filePath)
      => ~(FileWritten(p) /\ FileWritten(q))

\* C30: a handler whose user has no access token answers unauthorized and
\* makes no gateway call: no gateway call is ever made with an empty bearer
\* token.
C30_NoGatewayCallWithoutToken ==
    \A p \in Procs :
      handler[p] # "none" /\ calls[p] # << >> => input[p].token # ""

====
